---------------------------- MODULE Spec2Model ----------------------------
(***************************************************************************)
(* Commitment ingestion backend (clla_backend_server): the per-user        *)
(* connection state machine and trigger provisioning of src/main.py, the   *)
(* credit meter of src/credit_engine.py and the live pipeline of           *)
(* src/tools/gmail/process_new_email.py, for one user.                     *)
(*                                                                         *)
(* Request handlers are one action each (the store and aggregator calls of *)
(* one request are taken at one instant); background tasks are interleaved *)
(* at each of their store and aggregator calls.  The store is reliable;    *)
(* the aggregator's triggers.create and triggers.list_active may raise.    *)
(***************************************************************************)
EXTENDS Integers, Sequences, FiniteSets, Bags, TLC

(***************************************************************************)
(* Bounds of the model.                                                    *)
(***************************************************************************)
MaxAccounts == 2
MaxTriggers == 4
MaxTasks == 2
MaxSyncRuns == 2
MaxDeducts == 2
MaxAmount == 2
DEFAULT_FREE_TRIAL_CREDITS == 3
MaxRuns == 2
MaxMessages == 2
MaxExtracted == 2
MaxCommitments == 1
MaxDay == 3
MaxInits == 2
MaxTokens == 2
MaxOverdue == 101
MaxUntil == 701
MaxEmailDay == 7

(***************************************************************************)
(* Program constants.                                                      *)
(***************************************************************************)
StaleMinutes == 5
RETRY_ATTEMPTS == 2

None == 0

VARIABLES
    account,          \* the aggregator's ACTIVE Gmail connected account of the user (None: none)
    accounts_made,    \* connected accounts created so far (ids are 1, 2, ...)
    triggers,         \* the aggregator's active triggers: records [id, slug, connected_account_id]
    triggers_made,    \* triggers created so far (ids are 1, 2, ...)
    user,             \* the user document users/{uid}
    lock_age,         \* minutes since trigger_creation_started_at was written
    tasks,            \* background tasks enqueued or executing (a bag of task records)
    response,         \* the answer of the last step ("none": it was no /check-gmail-connection)
    initial_sync_runs \* how many times run_initial_sync was started (history)

connVars == <<account, accounts_made, triggers, triggers_made, user,
              lock_age, tasks, response, initial_sync_runs>>

VARIABLES
    credits,          \* the credit fields of users/{uid}, in hundredths of a credit
    doc_version,      \* how many times users/{uid} was written (what a transaction validates)
    calls,            \* the deduct_credits calls: call number -> record
    ledger            \* amounts committed since the credit fields were created, in commit order (history)

creditVars == <<credits, doc_version, calls, ledger>>

VARIABLES
    commitments,      \* users/{uid}/commitments: message_id -> how many documents carry it
    runs              \* the process_new_email tasks: run number -> record

mailVars == <<commitments, runs>>

VARIABLES
    sync,             \* the backfill (run_initial_sync) of the user: its position and counters
    webhook           \* the last POST /composio/webhook: its payload and its answer

VARIABLES
    docs,             \* users/{uid}/commitments as the routes see it: commitment_id -> document (None: no document)
    shadow,           \* the shadow store: commitment_id -> the text under deleted_commitment:{uid}:{id} (None: no key)
    req,              \* the DELETE or POST /restore request the server is executing
    made,             \* how many commitment ids save_commitment_to_firestore generated
    originals,        \* commitment_id -> the document as DELETE found it, until a restore of it ends (history)
    shadow_lost,      \* commitment_id -> the shadow store failed it: a call raised or was skipped, or its key expired (history)
    calc              \* recalculate_status: the commitment and the date it was given, and what it returned

routeVars == <<docs, shadow, req, made, originals, shadow_lost, calc>>

VARIABLES
    extraction        \* one call of extract_commitments_from_email: its position, its answer and what it did

extractVars == <<extraction>>

VARIABLES
    init_calls        \* the calls of initialize_credits_if_missing in flight: between its read and its write

initVars == <<init_calls>>

VARIABLES
    persisted         \* one answer of the extractor on its way into users/{uid}/commitments

persistVars == <<persisted>>

VARIABLES
    batch             \* run_initial_sync folder by folder: what was fetched, and what became of each message

batchVars == <<batch>>

VARIABLES
    reply             \* the answer to the last DELETE or POST /restore request: its HTTP status code

replyVars == <<reply>>

VARIABLES
    urgency           \* one call of get_urgency_score: the commitment, the date and the score returned

urgencyVars == <<urgency>>

VARIABLES
    parsing           \* one call of parse_deadline_raw: the phrase, the email date and what it returned

parseVars == <<parsing>>

restVars == <<sync, webhook, routeVars, extractVars, initVars, persistVars, batchVars, replyVars, urgencyVars, parseVars>>

vars == <<connVars, creditVars, mailVars, restVars>>

Min(a, b) == IF a < b THEN a ELSE b
Max(a, b) == IF a > b THEN a ELSE b

INBOX_SLUG == "GMAIL_NEW_GMAIL_MESSAGE"
SENT_SLUG == "GMAIL_EMAIL_SENT_TRIGGER"

(***************************************************************************)
(* The user document as /user creates it: no connection or sync field.     *)
(***************************************************************************)
NewUserDoc ==
    [ first_connected_at           |-> FALSE,   \* TRUE: non-null
      composio_enabled             |-> FALSE,
      inbox_trigger_id             |-> None,
      sent_trigger_id              |-> None,
      entity_id                    |-> None,
      last_sync_time               |-> FALSE,   \* TRUE: non-null
      initial_sync_completed       |-> FALSE,
      sync_in_progress             |-> FALSE,
      trigger_creation_in_progress |-> FALSE ]

\* what the last step answered to GET /check-gmail-connection, and whether
\* that request cleared a stale trigger lock
Answer(sync_status) == [sync_status |-> sync_status, stale_lock_cleared |-> FALSE]
NoResponse == Answer("none")

InitConn ==
    /\ account = None
    /\ accounts_made = 0
    /\ triggers = {}
    /\ triggers_made = 0
    /\ user = NewUserDoc
    /\ lock_age = 0
    /\ tasks = EmptyBag
    /\ response = NoResponse
    /\ initial_sync_runs = 0

(***************************************************************************)
(* The aggregator (Composio), seen through the calls the program makes.    *)
(***************************************************************************)
\* composio.triggers.list_active(trigger_names=[slug], connected_account_ids=[c])
ActiveTriggers(slug, c) ==
    {t \in triggers : t.slug = slug /\ t.connected_account_id = c}

\* check_triggers_exist: (inbox_exists, sent_exists) for a connection
inbox_exists(c) == ActiveTriggers(INBOX_SLUG, c) # {}
sent_exists(c) == ActiveTriggers(SENT_SLUG, c) # {}

\* get_existing_gmail_connection(...)["exists"] and ["status"] == "ACTIVE"
gmail_connected == account # None

\* composio.triggers.create(slug, connected_account_id=c) returns a new trigger
CanCreate == triggers_made < MaxTriggers
CreatedTrigger(slug, c) ==
    [id |-> triggers_made + 1, slug |-> slug, connected_account_id |-> c]

\* composio.triggers.delete(trigger_id=...) for the ids that are not None
DeleteTriggers(ids) == {t \in triggers : t.id \notin ids}

(***************************************************************************)
(* Background tasks (FastAPI BackgroundTasks): enqueued by a handler, run  *)
(* after its response, concurrently with other requests and tasks.         *)
(***************************************************************************)
FirstTimeTask(c) ==
    [ kind |-> "first_time", pc |-> "start", connection_id |-> c,
      inbox_trigger_id |-> None, sent_trigger_id |-> None ]

ReconnectionTask(c) ==
    [ kind |-> "reconnection", pc |-> "create_inbox", connection_id |-> c,
      inbox_trigger_id |-> None, sent_trigger_id |-> None ]

CanEnqueue == BagCardinality(tasks) < MaxTasks
Enqueue(t) == tasks (+) SetToBag({t})
Finish(t) == tasks (-) SetToBag({t})
Step(t, u) == (tasks (-) SetToBag({t})) (+) SetToBag({u})

\* the tasks of one kind that are enqueued or executing
NumTasks(kind) ==
    BagCardinality([t \in {u \in BagToSet(tasks) : u.kind = kind} |-> tasks[t]])

(***************************************************************************)
(* Helpers of src/main.py that write the user document.                    *)
(***************************************************************************)
\* a decision that takes every connection for a first one
AlwaysFirstTime == TRUE

\* get_connection_state(uid)["is_first_time"], should_run_initial_sync(uid)
should_run_initial_sync == ~user.first_connected_at

\* set_sync_started
set_sync_started(doc) == [doc EXCEPT !.sync_in_progress = TRUE]

\* set_trigger_creation_started: the lock and its timestamp (age 0)
set_trigger_creation_started(doc) == [doc EXCEPT !.trigger_creation_in_progress = TRUE]

\* a release of the trigger lock that also drops the recorded inbox trigger
ClearForgetsTrigger(doc) ==
    [doc EXCEPT !.trigger_creation_in_progress = FALSE,
                !.inbox_trigger_id = None]

\* clear_trigger_creation_lock
clear_trigger_creation_lock(doc) == [doc EXCEPT !.trigger_creation_in_progress = FALSE]

\* a lock test without the 5-minute staleness break
LockNeverStale == user.trigger_creation_in_progress

\* the stale-lock test of check_gmail_connection: age_minutes < 5 respects the lock
LockRespected == user.trigger_creation_in_progress /\ lock_age < StaleMinutes
LockStale == user.trigger_creation_in_progress /\ lock_age >= StaleMinutes

\* mark_first_connection
mark_first_connection(doc, entity, inbox_id, sent_id) ==
    [doc EXCEPT !.first_connected_at = TRUE,
                !.composio_enabled = TRUE,
                !.inbox_trigger_id = inbox_id,
                !.sent_trigger_id = sent_id,
                !.entity_id = entity,
                !.last_sync_time = TRUE]

\* mark_reconnection: first_connected_at and last_sync_time are not written
mark_reconnection(doc, entity, inbox_id, sent_id) ==
    [doc EXCEPT !.composio_enabled = TRUE,
                !.inbox_trigger_id = inbox_id,
                !.sent_trigger_id = sent_id,
                !.entity_id = entity]

\* a disconnection that drops the connection history with the trigger ids
ForgetFirstConnection(doc) ==
    [doc EXCEPT !.first_connected_at = FALSE,
                !.composio_enabled = FALSE,
                !.inbox_trigger_id = None,
                !.sent_trigger_id = None]

\* a disconnection that also drops the entity and the last sync time
ForgetEntity(doc) ==
    [doc EXCEPT !.composio_enabled = FALSE,
                !.inbox_trigger_id = None,
                !.sent_trigger_id = None,
                !.entity_id = None,
                !.last_sync_time = FALSE]

\* a disconnection that clears the inbox trigger id only
DisconnectKeepsSentTrigger(doc) ==
    [doc EXCEPT !.composio_enabled = FALSE,
                !.inbox_trigger_id = None]

\* mark_disconnection: first_connected_at, last_sync_time and entity_id are
\* not written
mark_disconnection(doc) ==
    [doc EXCEPT !.composio_enabled = FALSE,
                !.inbox_trigger_id = None,
                !.sent_trigger_id = None]

(***************************************************************************)
(* The user completes the OAuth flow started by /connect/composio-gmail:   *)
(* the aggregator holds a new ACTIVE connected account.                    *)
(***************************************************************************)
ConnectGmail ==
    /\ account = None
    /\ accounts_made < MaxAccounts
    /\ account' = accounts_made + 1
    /\ accounts_made' = accounts_made + 1
    /\ response' = NoResponse
    /\ UNCHANGED <<creditVars, mailVars, restVars>>
    /\ UNCHANGED <<triggers, triggers_made, user, lock_age, tasks,
                   initial_sync_runs>>

(***************************************************************************)
(* GET /check-gmail-connection                                             *)
(***************************************************************************)
CheckNotConnected ==
    /\ ~gmail_connected
    /\ response' = Answer("not_connected")
    /\ UNCHANGED <<creditVars, mailVars, restVars>>
    /\ UNCHANGED <<account, accounts_made, triggers, triggers_made,
                   user, lock_age, tasks, initial_sync_runs>>

\* initial_sync_completed and both triggers listed
CheckCompleted ==
    /\ gmail_connected
    /\ user.initial_sync_completed
    /\ inbox_exists(account) /\ sent_exists(account)
    /\ response' = Answer("completed")
    /\ UNCHANGED <<creditVars, mailVars, restVars>>
    /\ UNCHANGED <<account, accounts_made, triggers, triggers_made,
                   user, lock_age, tasks, initial_sync_runs>>

\* a trigger is missing (or check_triggers_exist caught an exception and
\* answered that none exists) and the lock is younger than 5 minutes
TriggersMissing(listRaised) ==
    listRaised \/ ~(inbox_exists(account) /\ sent_exists(account))

CheckLockRespected ==
    \E listRaised \in BOOLEAN :
        /\ gmail_connected
        /\ user.initial_sync_completed
        /\ TriggersMissing(listRaised)
        /\ LockRespected
        /\ response' = Answer("reconnecting")
        /\ UNCHANGED <<creditVars, mailVars, restVars>>
        /\ UNCHANGED <<account, accounts_made, triggers, triggers_made,
                       user, lock_age, tasks, initial_sync_runs>>

\* a trigger is missing and there is no lock, or a stale one that is cleared:
\* the lock is set and create_trigger_on_reconnection enqueued
CheckCreateMissing ==
    \E listRaised \in BOOLEAN :
        /\ gmail_connected
        /\ user.initial_sync_completed
        /\ TriggersMissing(listRaised)
        /\ ~LockRespected
        /\ CanEnqueue
        /\ user' = set_trigger_creation_started(
                      IF LockStale THEN clear_trigger_creation_lock(user) ELSE user)
        /\ lock_age' = 0
        /\ tasks' = Enqueue(ReconnectionTask(account))
        /\ response' = [Answer("reconnecting") EXCEPT !.stale_lock_cleared = LockStale]
        /\ UNCHANGED <<creditVars, mailVars, restVars>>
        /\ UNCHANGED <<account, accounts_made, triggers, triggers_made,
                       initial_sync_runs>>

CheckSyncInProgress ==
    /\ gmail_connected
    /\ ~user.initial_sync_completed
    /\ user.sync_in_progress
    /\ response' = Answer("in_progress")
    /\ UNCHANGED <<creditVars, mailVars, restVars>>
    /\ UNCHANGED <<account, accounts_made, triggers, triggers_made,
                   user, lock_age, tasks, initial_sync_runs>>

\* first-time connection: set_sync_started, enqueue the first-time flow
CheckFirstTime ==
    /\ gmail_connected
    /\ ~user.initial_sync_completed
    /\ ~user.sync_in_progress
    /\ should_run_initial_sync
    /\ CanEnqueue
    /\ user' = set_sync_started(user)
    /\ tasks' = Enqueue(FirstTimeTask(account))
    /\ response' = Answer("started")
    /\ UNCHANGED <<creditVars, mailVars, restVars>>
    /\ UNCHANGED <<account, accounts_made, triggers, triggers_made,
                   lock_age, initial_sync_runs>>

\* reconnection branch: the lock is set without being read
CheckReconnection ==
    /\ gmail_connected
    /\ ~user.initial_sync_completed
    /\ ~user.sync_in_progress
    /\ ~should_run_initial_sync
    /\ CanEnqueue
    /\ user' = set_trigger_creation_started(user)
    /\ lock_age' = 0
    /\ tasks' = Enqueue(ReconnectionTask(account))
    /\ response' = Answer("reconnected")
    /\ UNCHANGED <<creditVars, mailVars, restVars>>
    /\ UNCHANGED <<account, accounts_made, triggers, triggers_made,
                   initial_sync_runs>>

check_gmail_connection ==
    \/ CheckNotConnected
    \/ CheckCompleted
    \/ CheckLockRespected
    \/ CheckCreateMissing
    \/ CheckSyncInProgress
    \/ CheckFirstTime
    \/ CheckReconnection

(***************************************************************************)
(* GET /composio/callback: neither sync_in_progress nor the trigger lock   *)
(* is read.                                                                *)
(***************************************************************************)
CallbackFirstTime ==
    /\ gmail_connected
    /\ should_run_initial_sync
    /\ CanEnqueue
    /\ tasks' = Enqueue(FirstTimeTask(account))
    /\ response' = NoResponse
    /\ UNCHANGED <<creditVars, mailVars, restVars>>
    /\ UNCHANGED <<account, accounts_made, triggers, triggers_made, user,
                   lock_age, initial_sync_runs>>

CallbackReconnection ==
    /\ gmail_connected
    /\ ~should_run_initial_sync
    /\ CanEnqueue
    /\ user' = set_trigger_creation_started(user)
    /\ lock_age' = 0
    /\ tasks' = Enqueue(ReconnectionTask(account))
    /\ response' = NoResponse
    /\ UNCHANGED <<creditVars, mailVars, restVars>>
    /\ UNCHANGED <<account, accounts_made, triggers, triggers_made,
                   initial_sync_runs>>

composio_callback_endpoint == CallbackFirstTime \/ CallbackReconnection

(***************************************************************************)
(* POST /register-gmail-trigger: unless both triggers are listed, an inbox *)
(* trigger is created; nothing is written to the user document.            *)
(***************************************************************************)
register_gmail_trigger ==
    \E listRaised \in BOOLEAN :
        /\ gmail_connected
        /\ TriggersMissing(listRaised)
        /\ CanCreate
        /\ triggers' = triggers \cup {CreatedTrigger(INBOX_SLUG, account)}
        /\ triggers_made' = triggers_made + 1
        /\ response' = NoResponse
        /\ UNCHANGED <<creditVars, mailVars, restVars>>
        /\ UNCHANGED <<account, accounts_made, user, lock_age, tasks,
                       initial_sync_runs>>

(***************************************************************************)
(* POST /disconnect-gmail: delete the two recorded triggers, delete the    *)
(* connected account if there is one, mark_disconnection, clear the        *)
(* trigger lock.                                                           *)
(***************************************************************************)
disconnect_gmail_endpoint ==
    /\ triggers' = DeleteTriggers({user.inbox_trigger_id, user.sent_trigger_id})
    /\ account' = None
    /\ user' = clear_trigger_creation_lock(mark_disconnection(user))
    /\ lock_age' = 0
    /\ response' = NoResponse
    /\ UNCHANGED <<creditVars, mailVars, restVars>>
    /\ UNCHANGED <<accounts_made, triggers_made, tasks, initial_sync_runs>>

(***************************************************************************)
(* Time passes while the trigger lock is held: StaleMinutes more minutes    *)
(* (the only reading of the clock is the test age_minutes < 5).            *)
(***************************************************************************)
Tick ==
    /\ user.trigger_creation_in_progress
    /\ lock_age < StaleMinutes
    /\ lock_age' = lock_age + StaleMinutes
    /\ response' = NoResponse
    /\ UNCHANGED <<creditVars, mailVars, restVars>>
    /\ UNCHANGED <<account, accounts_made, triggers, triggers_made, user,
                   tasks, initial_sync_runs>>

(***************************************************************************)
(* run_initial_sync_and_trigger_first_time, step by step.                  *)
(***************************************************************************)
\* an except branch that writes only sync_error
ExceptKeepsFlag(doc) == doc

\* the except branch: sync_in_progress False, sync_error
FirstTimeExcept(doc) == [doc EXCEPT !.sync_in_progress = FALSE]

\* a last write that records the completion and leaves the sync flag set
CompleteKeepsSyncing(doc) == [doc EXCEPT !.initial_sync_completed = TRUE]

\* the last write of the try block
FirstTimeComplete(doc) ==
    [doc EXCEPT !.initial_sync_completed = TRUE, !.sync_in_progress = FALSE]

FT_Start(t) ==
    /\ t.kind = "first_time" /\ t.pc = "start"
    /\ user' = set_sync_started(user)
    /\ tasks' = Step(t, [t EXCEPT !.pc = "sync"])
    /\ response' = NoResponse
    /\ UNCHANGED <<creditVars, mailVars, restVars>>
    /\ UNCHANGED <<account, accounts_made, triggers, triggers_made, lock_age,
                   initial_sync_runs>>

\* run_initial_sync(user_id, gmail_connected_at): the backfill
FT_RunInitialSync(t) ==
    /\ t.kind = "first_time" /\ t.pc = "sync"
    /\ initial_sync_runs < MaxSyncRuns
    /\ initial_sync_runs' = initial_sync_runs + 1
    /\ tasks' = Step(t, [t EXCEPT !.pc = "create_inbox"])
    /\ response' = NoResponse
    /\ UNCHANGED <<creditVars, mailVars, restVars>>
    /\ UNCHANGED <<account, accounts_made, triggers, triggers_made, user,
                   lock_age>>

\* run_initial_sync raised (a message it could not read, a batch it could
\* not process): the except branch ends the task
FT_SyncRaises(t) ==
    /\ t.kind = "first_time" /\ t.pc = "sync"
    /\ initial_sync_runs < MaxSyncRuns
    /\ initial_sync_runs' = initial_sync_runs + 1
    /\ user' = FirstTimeExcept(user)
    /\ tasks' = Finish(t)
    /\ response' = NoResponse
    /\ UNCHANGED <<creditVars, mailVars, restVars>>
    /\ UNCHANGED <<account, accounts_made, triggers, triggers_made, lock_age>>

FT_CreateInbox(t) ==
    /\ t.kind = "first_time" /\ t.pc = "create_inbox"
    /\ CanCreate
    /\ triggers' = triggers \cup {CreatedTrigger(INBOX_SLUG, t.connection_id)}
    /\ triggers_made' = triggers_made + 1
    /\ tasks' = Step(t, [t EXCEPT !.pc = "create_sent", !.inbox_trigger_id = triggers_made + 1])
    /\ response' = NoResponse
    /\ UNCHANGED <<creditVars, mailVars, restVars>>
    /\ UNCHANGED <<account, accounts_made, user, lock_age, initial_sync_runs>>

FT_CreateSent(t) ==
    /\ t.kind = "first_time" /\ t.pc = "create_sent"
    /\ CanCreate
    /\ triggers' = triggers \cup {CreatedTrigger(SENT_SLUG, t.connection_id)}
    /\ triggers_made' = triggers_made + 1
    /\ tasks' = Step(t, [t EXCEPT !.pc = "mark_first_connection", !.sent_trigger_id = triggers_made + 1])
    /\ response' = NoResponse
    /\ UNCHANGED <<creditVars, mailVars, restVars>>
    /\ UNCHANGED <<account, accounts_made, user, lock_age, initial_sync_runs>>

\* triggers.create raised: the except branch ends the task
FT_CreateRaises(t) ==
    /\ t.kind = "first_time"
    /\ t.pc \in {"create_inbox", "create_sent"}
    /\ user' = FirstTimeExcept(user)
    /\ tasks' = Finish(t)
    /\ response' = NoResponse
    /\ UNCHANGED <<creditVars, mailVars, restVars>>
    /\ UNCHANGED <<account, accounts_made, triggers, triggers_made, lock_age,
                   initial_sync_runs>>

FT_MarkFirstConnection(t) ==
    /\ t.kind = "first_time" /\ t.pc = "mark_first_connection"
    /\ user' = mark_first_connection(user, t.connection_id,
                                     t.inbox_trigger_id, t.sent_trigger_id)
    /\ tasks' = Step(t, [t EXCEPT !.pc = "complete"])
    /\ response' = NoResponse
    /\ UNCHANGED <<creditVars, mailVars, restVars>>
    /\ UNCHANGED <<account, accounts_made, triggers, triggers_made, lock_age,
                   initial_sync_runs>>

\* the write of mark_first_connection raises: 'except Exception: return
\* False', and the task, which does not look at what is returned, goes on
FT_MarkFirstConnectionFails(t) ==
    /\ t.kind = "first_time" /\ t.pc = "mark_first_connection"
    /\ tasks' = Step(t, [t EXCEPT !.pc = "complete"])
    /\ response' = NoResponse
    /\ UNCHANGED <<creditVars, mailVars, restVars>>
    /\ UNCHANGED <<account, accounts_made, triggers, triggers_made, user,
                   lock_age, initial_sync_runs>>

FT_Complete(t) ==
    /\ t.kind = "first_time" /\ t.pc = "complete"
    /\ user' = FirstTimeComplete(user)
    /\ tasks' = Finish(t)
    /\ response' = NoResponse
    /\ UNCHANGED <<creditVars, mailVars, restVars>>
    /\ UNCHANGED <<account, accounts_made, triggers, triggers_made, lock_age,
                   initial_sync_runs>>

run_initial_sync_and_trigger_first_time(t) ==
    \/ FT_Start(t)
    \/ FT_RunInitialSync(t)
    \/ FT_SyncRaises(t)
    \/ FT_CreateInbox(t)
    \/ FT_CreateSent(t)
    \/ FT_CreateRaises(t)
    \/ FT_MarkFirstConnection(t)
    \/ FT_Complete(t)

(***************************************************************************)
(* create_trigger_on_reconnection, step by step: both triggers are created *)
(* without listing the active ones; the finally branch clears the lock.    *)
(***************************************************************************)
RC_CreateInbox(t) ==
    /\ t.kind = "reconnection" /\ t.pc = "create_inbox"
    /\ CanCreate
    /\ triggers' = triggers \cup {CreatedTrigger(INBOX_SLUG, t.connection_id)}
    /\ triggers_made' = triggers_made + 1
    /\ tasks' = Step(t, [t EXCEPT !.pc = "create_sent", !.inbox_trigger_id = triggers_made + 1])
    /\ response' = NoResponse
    /\ UNCHANGED <<creditVars, mailVars, restVars>>
    /\ UNCHANGED <<account, accounts_made, user, lock_age, initial_sync_runs>>

RC_CreateSent(t) ==
    /\ t.kind = "reconnection" /\ t.pc = "create_sent"
    /\ CanCreate
    /\ triggers' = triggers \cup {CreatedTrigger(SENT_SLUG, t.connection_id)}
    /\ triggers_made' = triggers_made + 1
    /\ tasks' = Step(t, [t EXCEPT !.pc = "mark_reconnection", !.sent_trigger_id = triggers_made + 1])
    /\ response' = NoResponse
    /\ UNCHANGED <<creditVars, mailVars, restVars>>
    /\ UNCHANGED <<account, accounts_made, user, lock_age, initial_sync_runs>>

RC_CreateRaises(t) ==
    /\ t.kind = "reconnection"
    /\ t.pc \in {"create_inbox", "create_sent"}
    /\ tasks' = Step(t, [t EXCEPT !.pc = "finally"])
    /\ response' = NoResponse
    /\ UNCHANGED <<creditVars, mailVars, restVars>>
    /\ UNCHANGED <<account, accounts_made, triggers, triggers_made, user,
                   lock_age, initial_sync_runs>>

RC_MarkReconnection(t) ==
    /\ t.kind = "reconnection" /\ t.pc = "mark_reconnection"
    /\ user' = mark_reconnection(user, t.connection_id,
                                 t.inbox_trigger_id, t.sent_trigger_id)
    /\ tasks' = Step(t, [t EXCEPT !.pc = "finally"])
    /\ response' = NoResponse
    /\ UNCHANGED <<creditVars, mailVars, restVars>>
    /\ UNCHANGED <<account, accounts_made, triggers, triggers_made, lock_age,
                   initial_sync_runs>>

RC_Finally(t) ==
    /\ t.kind = "reconnection" /\ t.pc = "finally"
    /\ user' = clear_trigger_creation_lock(user)
    /\ lock_age' = 0
    /\ tasks' = Finish(t)
    /\ response' = NoResponse
    /\ UNCHANGED <<creditVars, mailVars, restVars>>
    /\ UNCHANGED <<account, accounts_made, triggers, triggers_made,
                   initial_sync_runs>>

create_trigger_on_reconnection(t) ==
    \/ RC_CreateInbox(t)
    \/ RC_CreateSent(t)
    \/ RC_CreateRaises(t)
    \/ RC_MarkReconnection(t)
    \/ RC_Finally(t)

(***************************************************************************)
(* The credit meter (src/credit_engine.py).  Amounts are in hundredths of  *)
(* a credit: calculate_credits_spent rounds to two decimals.               *)
(***************************************************************************)
Amounts == 0..MaxAmount
CallIds == 1..MaxDeducts

\* users/{uid} before initialize_credits_if_missing: no credit field
NoCredits ==
    [ has_credits_total |-> FALSE,
      credits_total     |-> 0,
      credits_used      |-> 0,
      credits_remaining |-> 0 ]

IdleCall ==
    [ pc |-> "idle", credits_spent |-> 0, attempt |-> 0,
      remaining |-> 0, used |-> 0, version |-> 0,
      new_remaining |-> 0, hook_calls |-> 0 ]

InitCredits ==
    /\ credits = NoCredits
    /\ doc_version = 0
    /\ calls = [i \in CallIds |-> IdleCall]
    /\ ledger = << >>

\* initialize_credits_if_missing: the fields are written only when
\* credits_total is absent
initialize_credits_if_missing ==
    /\ ~credits.has_credits_total
    /\ credits' = [ has_credits_total |-> TRUE,
                    credits_total     |-> DEFAULT_FREE_TRIAL_CREDITS,
                    credits_used      |-> 0,
                    credits_remaining |-> DEFAULT_FREE_TRIAL_CREDITS ]
    /\ doc_version' = doc_version + 1
    /\ ledger' = << >>
    /\ UNCHANGED <<calls, connVars, mailVars, restVars>>

\* the credit fields as initialize_credits_if_missing writes them
StoredCredits ==
    [ has_credits_total |-> TRUE,
      credits_total     |-> DEFAULT_FREE_TRIAL_CREDITS,
      credits_used      |-> 0,
      credits_remaining |-> DEFAULT_FREE_TRIAL_CREDITS ]

\* a gate that lets every user through
AlwaysEnoughCredits == TRUE

\* has_enough_credits
has_enough_credits == credits.credits_remaining > 0

\* the two values the transaction body computes from its snapshot
new_remaining(remaining, credits_spent) == Max(remaining - credits_spent, 0)
new_used(used, credits_spent) == used + credits_spent

\* deduct_credits(user_id, credits_spent) is called
DeductCall(i) ==
    \E credits_spent \in Amounts :
        /\ calls[i].pc = "idle"
        /\ \A j \in CallIds : j < i => calls[j].pc # "idle"
        /\ calls' = [calls EXCEPT ![i] = [@ EXCEPT !.pc = "txn_read",
                                                   !.credits_spent = credits_spent,
                                                   !.attempt = 1]]
        /\ UNCHANGED <<credits, doc_version, ledger, connVars, mailVars, restVars>>

\* txn: user_ref.get(transaction=transaction)
TxnRead(i) ==
    /\ calls[i].pc = "txn_read"
    /\ calls' = [calls EXCEPT ![i] = [@ EXCEPT !.pc = "txn_commit",
                                               !.remaining = credits.credits_remaining,
                                               !.used = credits.credits_used,
                                               !.version = doc_version]]
    /\ UNCHANGED <<credits, doc_version, ledger, connVars, mailVars, restVars>>

\* a store that validates nothing at commit
NoCommitValidation(i) == FALSE

\* the store rejects the commit of a transaction whose document was written
\* after the transaction read it
TxnConflict(i) == calls[i].version # doc_version

\* txn: transaction.update(...) and commit; both fields in one write
TxnCommit(i) ==
    /\ calls[i].pc = "txn_commit"
    /\ ~TxnConflict(i)
    /\ credits' = [credits EXCEPT
                      !.credits_remaining = new_remaining(calls[i].remaining, calls[i].credits_spent),
                      !.credits_used = new_used(calls[i].used, calls[i].credits_spent)]
    /\ doc_version' = doc_version + 1
    /\ ledger' = Append(ledger, calls[i].credits_spent)
    /\ calls' = [calls EXCEPT ![i] = [@ EXCEPT !.pc = "committed",
                                               !.used = 0, !.version = 0,
                                               !.new_remaining = new_remaining(calls[i].remaining, calls[i].credits_spent)]]
    /\ UNCHANGED <<connVars, mailVars, restVars>>

\* @firestore.transactional runs txn again after a rejected commit
TxnRetry(i) ==
    /\ calls[i].pc = "txn_commit"
    /\ TxnConflict(i)
    /\ calls' = [calls EXCEPT ![i] = [@ EXCEPT !.pc = "txn_read", !.attempt = @ + 1,
                                               !.remaining = 0, !.used = 0, !.version = 0]]
    /\ UNCHANGED <<credits, doc_version, ledger, connVars, mailVars, restVars>>

\* services.composio.composio_manager defines no pause_composio_trigger: the
\* import statement of the hook raises ImportError
PauseHookImportable == FALSE

\* after the commit: if new_remaining <= 0, import and call the pause hook
\* inside try/except
AfterCommit(i) ==
    /\ calls[i].pc = "committed"
    /\ calls' = [calls EXCEPT ![i] =
                   [@ EXCEPT !.pc = "done", !.attempt = 0,
                             !.hook_calls = IF calls[i].new_remaining <= 0 /\ PauseHookImportable
                                            THEN @ + 1 ELSE @]]
    /\ UNCHANGED <<credits, doc_version, ledger, connVars, mailVars, restVars>>

deduct_credits(i) ==
    \/ DeductCall(i)
    \/ TxnRead(i)
    \/ TxnCommit(i)
    \/ TxnRetry(i)
    \/ AfterCommit(i)

(***************************************************************************)
(* initialize_credits_if_missing step by step: user_ref.get() and, when    *)
(* the snapshot has no credits_total, user_ref.set(..., merge=True).  The  *)
(* two are separate calls to the store, outside any transaction; the       *)
(* callers are run_initial_sync, in a background task, and GET /credits.   *)
(***************************************************************************)
InitIds == 1..MaxInits

InitInits == init_calls = [j \in InitIds |-> "idle"]

\* snap = user_ref.get(); 'if "credits_total" in data: return'
INIT_Read(j) ==
    /\ init_calls[j] = "idle"
    /\ init_calls' = [init_calls EXCEPT ![j] =
                         IF credits.has_credits_total THEN "done" ELSE "set"]
    /\ UNCHANGED <<sync, webhook, routeVars, extractVars, connVars, creditVars, mailVars, persistVars, batchVars, replyVars, urgencyVars, parseVars>>

\* the merge writes credits_total, credits_used and credits_remaining
MergeDefaults(doc) == StoredCredits

\* user_ref.set({...}, merge=True)
INIT_Set(j) ==
    /\ init_calls[j] = "set"
    /\ init_calls' = [init_calls EXCEPT ![j] = "done"]
    /\ credits' = MergeDefaults(credits)
    /\ doc_version' = doc_version + 1
    /\ ledger' = ledger
    /\ UNCHANGED <<calls, sync, webhook, routeVars, extractVars, connVars, mailVars, persistVars, batchVars, replyVars, urgencyVars, parseVars>>

initialize_credits_steps(j) == INIT_Read(j) \/ INIT_Set(j)

(***************************************************************************)
(* The live pipeline: POST /composio/webhook enqueues process_new_email    *)
(* (src/tools/gmail/process_new_email.py), which runs step by step at its  *)
(* store, aggregator and model calls.                                      *)
(***************************************************************************)
MessageIds == 1..MaxMessages
RunIds == 1..MaxRuns

\* extracted: the run had an answer of the model, and its debit
IdleRun ==
    [pc |-> "idle", message_id |-> None, attempt |-> 0, to_save |-> 0, extracted |-> FALSE]

InitMail ==
    /\ commitments = [m \in MessageIds |-> 0]
    /\ runs = [r \in RunIds |-> IdleRun]

\* the body of a webhook: data.user_id and the connection id present or
\* not, data.message_id a message id or absent
Payloads ==
    [ user_id : BOOLEAN, connection_id : BOOLEAN, message_id : MessageIds \cup {None} ]

MissingFields(payload) ==
    ~payload.user_id \/ ~payload.connection_id \/ payload.message_id = None

WebhookAnswer(payload, status, reason) ==
    [ payload |-> payload, status |-> status, reason |-> reason ]

NoWebhook ==
    WebhookAnswer([user_id |-> FALSE, connection_id |-> FALSE, message_id |-> None],
                  "none", "none")

InitWebhook == webhook = NoWebhook

\* a field is missing
WebhookMissingFields(payload) ==
    /\ MissingFields(payload)
    /\ webhook' = WebhookAnswer(payload, "error", "missing_fields")
    /\ UNCHANGED <<runs, sync, routeVars, commitments, connVars, creditVars, extractVars, initVars, persistVars, batchVars, replyVars, urgencyVars, parseVars>>

\* the user has no credits
WebhookNoCredits(payload) ==
    /\ ~MissingFields(payload)
    /\ ~has_enough_credits
    /\ webhook' = WebhookAnswer(payload, "skipped", "no_credits")
    /\ UNCHANGED <<runs, sync, routeVars, commitments, connVars, creditVars, extractVars, initVars, persistVars, batchVars, replyVars, urgencyVars, parseVars>>

\* with credits remaining, process_new_email is enqueued
WebhookEnqueue(r, payload) ==
    /\ ~MissingFields(payload)
    /\ has_enough_credits
    /\ runs[r].pc = "idle"
    /\ \A q \in RunIds : q < r => runs[q].pc # "idle"
    /\ runs' = [runs EXCEPT ![r] = [@ EXCEPT !.pc = "fetch", !.message_id = payload.message_id]]
    /\ webhook' = WebhookAnswer(payload, "ok", "none")
    /\ UNCHANGED <<sync, routeVars, commitments, connVars, creditVars, extractVars, initVars, persistVars, batchVars, replyVars, urgencyVars, parseVars>>

composio_webhook(r) ==
    \E payload \in Payloads :
        \/ WebhookMissingFields(payload)
        \/ WebhookNoCredits(payload)
        \/ WebhookEnqueue(r, payload)

\* 1. GMAIL_FETCH_MESSAGE_BY_MESSAGE_ID; an exception or an empty message
\* ends the run
PNE_Fetch(r) ==
    \E fetched \in BOOLEAN :
        /\ runs[r].pc = "fetch"
        /\ runs' = [runs EXCEPT ![r] = [@ EXCEPT !.pc = IF fetched THEN "dedupe" ELSE "done"]]
        /\ UNCHANGED <<commitments, connVars, creditVars, restVars>>

\* check_commitment_exists: a query of the commitments collection
check_commitment_exists(message_id) == commitments[message_id] > 0

\* Deduplicate: a run that finds a commitment of the message returns
PNE_Dedupe(r) ==
    /\ runs[r].pc = "dedupe"
    /\ runs' = [runs EXCEPT ![r] = [@ EXCEPT !.pc =
                  IF check_commitment_exists(runs[r].message_id) THEN "done" ELSE "extract"]]
    /\ UNCHANGED <<commitments, connVars, creditVars, restVars>>

\* extract_commitments_from_email starts: without credits it answers
\* has_commitment False, otherwise it enters its loop of model calls
PNE_ExtractGate(r) ==
    /\ runs[r].pc = "extract"
    /\ runs' = [runs EXCEPT ![r] = [@ EXCEPT !.pc =
                  IF has_enough_credits THEN "call" ELSE "done"]]
    /\ UNCHANGED <<commitments, connVars, creditVars, restVars>>

\* what process_new_email does with the extractor's answer
AfterExtract(run, has_commitment, n) ==
    [run EXCEPT !.pc = IF has_commitment /\ n > 0 THEN "save" ELSE "done",
                !.to_save = IF has_commitment THEN n ELSE 0]

\* an attempt that gave no valid answer: the loop goes on, and after
\* RETRY_ATTEMPTS + 1 attempts the fallback answer has_commitment False
AfterInvalid(run) ==
    IF run.attempt + 1 = RETRY_ATTEMPTS + 1
    THEN [run EXCEPT !.pc = "done", !.attempt = 0]
    ELSE [run EXCEPT !.attempt = @ + 1]

\* one attempt whose model call raised: no usage, nothing deducted
PNE_CallRaises(r) ==
    /\ runs[r].pc = "call"
    /\ runs' = [runs EXCEPT ![r] = AfterInvalid(@)]
    /\ UNCHANGED <<commitments, connVars, creditVars, restVars>>

\* one attempt whose model call answered: its usage is deducted (the
\* transaction of deduct_credits), then the answer is validated
PNE_CallAnswers(r) ==
    \E credits_spent \in Amounts, valid, has_commitment \in BOOLEAN, n \in 0..MaxExtracted :
        /\ runs[r].pc = "call"
        /\ Len(ledger) < MaxDeducts
        /\ credits' = [credits EXCEPT
                          !.credits_remaining = new_remaining(@, credits_spent),
                          !.credits_used = new_used(@, credits_spent)]
        /\ doc_version' = doc_version + 1
        /\ ledger' = Append(ledger, credits_spent)
        /\ runs' = [runs EXCEPT ![r] =
                      IF valid
                      THEN AfterExtract([@ EXCEPT !.attempt = 0, !.extracted = TRUE],
                                        has_commitment, n)
                      ELSE AfterInvalid([@ EXCEPT !.extracted = TRUE])]
        /\ UNCHANGED <<calls, commitments, connVars, restVars>>

\* 4. one iteration of "for c in commitments": save_commitment_to_firestore
\* writes a new document that carries the email's message_id
PNE_Save(r) ==
    /\ runs[r].pc = "save"
    /\ commitments' = [commitments EXCEPT ![runs[r].message_id] = @ + 1]
    /\ runs' = [runs EXCEPT ![r] = [@ EXCEPT !.to_save = @ - 1,
                                             !.pc = IF runs[r].to_save = 1 THEN "done" ELSE "save"]]
    /\ UNCHANGED <<connVars, creditVars, restVars>>

process_new_email(r) ==
    \/ PNE_Fetch(r)
    \/ PNE_Dedupe(r)
    \/ PNE_ExtractGate(r)
    \/ PNE_CallRaises(r)
    \/ PNE_CallAnswers(r)
    \/ PNE_Save(r)

(***************************************************************************)
(* The commitment documents.  A date is a day number, None is null.        *)
(* deadline_iso is a text or null; the texts are told apart by what        *)
(* datetime.fromisoformat makes of them.                                   *)
(***************************************************************************)
CommitmentIds == 1..MaxCommitments
Days == 1..MaxDay

\* a timestamp is told by the call that read the clock: the save, the
\* PATCH, the DELETE or the restore
SavedAt == 1
MarkedAt == 2
DeletedAt == 3
RestoredAt == 4

Whats == {"send report", "call investor"}

NullDeadline == [kind |-> "null", day |-> None]
EmptyDeadline == [kind |-> "empty", day |-> None]            \* ""
GarbageDeadline == [kind |-> "garbage", day |-> None]        \* "next sprint"
IsoDate(d) == [kind |-> "date", day |-> d]                   \* "2025-11-22"
IsoDateTimeZ(d) == [kind |-> "datetime_z", day |-> d]        \* "2025-11-22T00:00:00Z"
IsoDateTimeOffset(d) == [kind |-> "datetime_offset", day |-> d] \* "2025-11-22T00:00:00+00:00"

\* what parse_deadline_raw returns: None or date.isoformat()
ParsedDeadlines == {NullDeadline} \cup {IsoDate(d) : d \in Days}

\* what a commitment dict may carry as deadline_iso
Deadlines ==
    {NullDeadline, EmptyDeadline, GarbageDeadline}
        \cup {IsoDate(d) : d \in Days} \cup {IsoDateTimeZ(d) : d \in Days}

\* "if deadline_iso:"
Truthy(deadline_iso) == deadline_iso.kind \notin {"null", "empty"}

\* the text handed to fromisoformat as it is
KeepZ(text) == text

\* deadline_iso.replace('Z', '+00:00')
ReplaceZ(text) == IF text.kind = "datetime_z" THEN IsoDateTimeOffset(text.day) ELSE text

\* datetime.fromisoformat(text).date(): the day, or ValueError
ValueError == 0 - 1
fromisoformat(text) ==
    IF text.kind \in {"date", "datetime_offset"} THEN text.day ELSE ValueError

Derived(status, days_overdue, overdue_flag) ==
    [status |-> status, days_overdue |-> days_overdue, overdue_flag |-> overdue_flag]

\* the comparison of the deadline with today
CompareWithToday(deadline_date, today) ==
    IF deadline_date < today THEN Derived("overdue", today - deadline_date, TRUE)
    ELSE IF deadline_date = today THEN Derived("due_today", 0, FALSE)
    ELSE Derived("active", 0, FALSE)

\* the extractor's status of a commitment whose deadline_iso was parsed
_post_process_commitments(deadline_iso, today) ==
    IF Truthy(deadline_iso) /\ fromisoformat(deadline_iso) # ValueError
    THEN CompareWithToday(fromisoformat(deadline_iso), today)
    ELSE Derived("no_deadline", 0, FALSE)

\* the fields of a commitment dict the status calculator reads or writes
CommitmentFields(deadline_iso, completed, derived) ==
    [ deadline_iso |-> deadline_iso,
      completed    |-> completed,
      status       |-> derived.status,
      days_overdue |-> derived.days_overdue,
      overdue_flag |-> derived.overdue_flag ]

\* a calculator that does not look at "completed"
RecalculateCompleted(commitment, today) ==
    LET deadline_iso == commitment.deadline_iso
        deadline_date == IF Truthy(deadline_iso)
                         THEN fromisoformat(ReplaceZ(deadline_iso))
                         ELSE ValueError
        derived == IF deadline_date # ValueError
                   THEN CompareWithToday(deadline_date, today)
                   ELSE Derived("no_deadline", 0, FALSE)
    IN [commitment EXCEPT !.status = derived.status,
                          !.days_overdue = derived.days_overdue,
                          !.overdue_flag = derived.overdue_flag]

\* recalculate_status(commitment, today) changes the dict and returns it
recalculate_status(commitment, today) ==
    IF commitment.completed
    THEN commitment
    ELSE LET deadline_iso == commitment.deadline_iso
             deadline_date == IF Truthy(deadline_iso)
                              THEN fromisoformat(ReplaceZ(deadline_iso))
                              ELSE ValueError
             derived == IF deadline_date # ValueError
                        THEN CompareWithToday(deadline_date, today)
                        ELSE Derived("no_deadline", 0, FALSE)
         IN [commitment EXCEPT !.status = derived.status,
                               !.days_overdue = derived.days_overdue,
                               !.overdue_flag = derived.overdue_flag]

\* the commitment dicts and dates recalculate_status is given
Statuses == {"overdue", "due_today", "active", "no_deadline", "completed"}
StoredDerived ==
    { Derived(s, n, f) : s \in Statuses, n \in 0..(MaxDay - 1), f \in BOOLEAN }
CalcInputs ==
    { [ commitment |-> CommitmentFields(dl, c, dv), today |-> t ] :
          dl \in Deadlines, c \in BOOLEAN, dv \in StoredDerived, t \in Days }

Calc(input, pc, once, twice) ==
    [ commitment |-> input.commitment, today |-> input.today,
      pc |-> pc, once |-> once, twice |-> twice ]

IdleCalc ==
    Calc([commitment |-> CommitmentFields(NullDeadline, FALSE, Derived("no_deadline", 0, FALSE)),
          today |-> 1], "given", None, None)

\* the first call on the dict
Recalculate ==
    /\ calc.pc = "given"
    /\ calc' = [calc EXCEPT !.pc = "once",
                            !.once = recalculate_status(calc.commitment, calc.today)]
    /\ UNCHANGED <<docs, shadow, req, made, originals, shadow_lost>>
    /\ UNCHANGED <<sync, webhook, connVars, creditVars, extractVars, mailVars, initVars, persistVars, batchVars, replyVars, urgencyVars, parseVars>>

\* a second call on what the first returned, with the same date
RecalculateAgain ==
    /\ calc.pc = "once"
    /\ calc' = [calc EXCEPT !.pc = "twice",
                            !.twice = recalculate_status(calc.once, calc.today)]
    /\ UNCHANGED <<docs, shadow, req, made, originals, shadow_lost>>
    /\ UNCHANGED <<sync, webhook, connVars, creditVars, extractVars, mailVars, initVars, persistVars, batchVars, replyVars, urgencyVars, parseVars>>

(***************************************************************************)
(* The commitment store and its routes (src/routes/commitment_routes.py).  *)
(* The handlers are coroutines that never await: the server executes one   *)
(* at a time.  A document is saved from a worker thread, at any time.      *)
(* The document store answers every call; a call of the shadow store may   *)
(* raise, and its keys expire.                                             *)
(***************************************************************************)
NoDoc == [commitment_id |-> None]
Exists(doc) == doc.commitment_id # None

\* the document process_new_email and run_initial_sync build from an
\* extracted commitment, as save_commitment_to_firestore stamps it
CommitmentDoc(commitment_id, what, deadline_iso, derived, now_iso) ==
    [ commitment_id |-> commitment_id,
      what          |-> what,
      deadline_iso  |-> deadline_iso,
      status        |-> derived.status,
      days_overdue  |-> derived.days_overdue,
      overdue_flag  |-> derived.overdue_flag,
      completed     |-> FALSE,
      completed_at  |-> None,
      created_at    |-> now_iso,
      updated_at    |-> now_iso,
      restored_at   |-> None ]     \* None: the document has no such key

\* one extracted commitment is post-processed and saved under a fresh id
save_commitment_to_firestore ==
    \E what \in Whats, deadline_iso \in ParsedDeadlines, today \in Days :
        /\ made < MaxCommitments
        /\ made' = made + 1
        /\ docs' = [docs EXCEPT ![made + 1] =
                        CommitmentDoc(made + 1, what, deadline_iso,
                                      _post_process_commitments(deadline_iso, today), SavedAt)]
        /\ UNCHANGED <<shadow, req, originals, shadow_lost, calc>>
        /\ UNCHANGED <<sync, webhook, connVars, creditVars, extractVars, mailVars, initVars, persistVars, batchVars, replyVars, urgencyVars, parseVars>>

\* the document id the lookup by the commitment_id field, then by document
\* id, finds (None: 404)
get_commitment_by_field(commitment_id) ==
    IF \E k \in CommitmentIds : docs[k].commitment_id = commitment_id
    THEN CHOOSE k \in CommitmentIds : docs[k].commitment_id = commitment_id
    ELSE IF Exists(docs[commitment_id]) THEN commitment_id ELSE None

NoRequest == [op |-> "none", pc |-> "none", commitment_id |-> None, data |-> NoDoc]

\* PATCH /{commitment_id}/complete
mark_commitment_complete(commitment_id, completed) ==
    LET k == get_commitment_by_field(commitment_id)
        now == MarkedAt
    IN     /\ req.op = "none"
           /\ k # None
           /\ docs' = [docs EXCEPT ![k] =
                           [@ EXCEPT !.completed = completed,
                                     !.status = IF completed THEN "completed" ELSE "active",
                                     !.updated_at = now,
                                     !.completed_at = IF completed THEN now ELSE None]]
           /\ UNCHANGED <<shadow, req, made, originals, shadow_lost, calc>>
           /\ UNCHANGED <<sync, webhook, connVars, creditVars, extractVars, mailVars, initVars, persistVars, batchVars, replyVars, urgencyVars, parseVars>>

\* json.dumps(data, default=str) and json.loads: every value of a document
\* is a text, a number, a boolean or null
JsonNull == [t |-> "null"]
JsonAbsent == [t |-> "absent"]
JsonOf(v) == [t |-> "value", v |-> v]

json_dumps(item) ==
    [ commitment_id |-> JsonOf(item.commitment_id),
      deleted_at    |-> JsonOf(item.deleted_at),
      data          |->
          [ commitment_id |-> JsonOf(item.data.commitment_id),
            what          |-> JsonOf(item.data.what),
            deadline_iso  |-> IF item.data.deadline_iso.kind = "null"
                              THEN JsonNull ELSE JsonOf(item.data.deadline_iso),
            status        |-> JsonOf(item.data.status),
            days_overdue  |-> JsonOf(item.data.days_overdue),
            overdue_flag  |-> JsonOf(item.data.overdue_flag),
            completed     |-> JsonOf(item.data.completed),
            completed_at  |-> IF item.data.completed_at = None
                              THEN JsonNull ELSE JsonOf(item.data.completed_at),
            created_at    |-> JsonOf(item.data.created_at),
            updated_at    |-> JsonOf(item.data.updated_at),
            restored_at   |-> IF item.data.restored_at = None
                              THEN JsonAbsent ELSE JsonOf(item.data.restored_at) ] ]

json_loads(text) ==
    [ commitment_id |-> text.commitment_id.v,
      deleted_at    |-> text.deleted_at.v,
      data          |->
          [ commitment_id |-> text.data.commitment_id.v,
            what          |-> text.data.what.v,
            deadline_iso  |-> IF text.data.deadline_iso.t = "null"
                              THEN NullDeadline ELSE text.data.deadline_iso.v,
            status        |-> text.data.status.v,
            days_overdue  |-> text.data.days_overdue.v,
            overdue_flag  |-> text.data.overdue_flag.v,
            completed     |-> text.data.completed.v,
            completed_at  |-> IF text.data.completed_at.t = "null"
                              THEN None ELSE text.data.completed_at.v,
            created_at    |-> text.data.created_at.v,
            updated_at    |-> text.data.updated_at.v,
            restored_at   |-> IF text.data.restored_at.t = "absent"
                              THEN None ELSE text.data.restored_at.v ] ]

NoKey == [key |-> FALSE]
Stored(text) == [key |-> TRUE, text |-> text]

NoReply == [status_code |-> 0]
Replied(status_code) == [status_code |-> status_code]

InitReply == reply = NoReply

\* DELETE /{commitment_id}: get_commitment_by_field finds no document, 404
DEL_NotFound(commitment_id) ==
    /\ req.op = "none"
    /\ get_commitment_by_field(commitment_id) = None
    /\ reply' = Replied(404)
    /\ UNCHANGED <<routeVars, sync, webhook, connVars, creditVars, extractVars, mailVars, initVars, persistVars, batchVars, urgencyVars, parseVars>>

\* DELETE /{commitment_id}: the lookup finds the document
DEL_Lookup(commitment_id) ==
    LET k == get_commitment_by_field(commitment_id)
    IN /\ req.op = "none"
       /\ k # None
       /\ req' = [op |-> "delete", pc |-> "backup", commitment_id |-> commitment_id,
                  data |-> docs[k]]
       /\ originals' = [originals EXCEPT ![commitment_id] = docs[k]]
       /\ UNCHANGED <<docs, shadow, made, shadow_lost, calc>>
       /\ UNCHANGED <<sync, webhook, connVars, creditVars, extractVars, mailVars, initVars, persistVars, batchVars, replyVars, urgencyVars, parseVars>>

\* backup_to_redis: setex of the key for 24 hours
DEL_Backup ==
    LET now == DeletedAt
    IN  /\ req.op = "delete" /\ req.pc = "backup"
        /\ shadow' = [shadow EXCEPT ![req.commitment_id] =
                          Stored(json_dumps([commitment_id |-> req.commitment_id,
                                             data |-> req.data, deleted_at |-> now]))]
        /\ req' = [req EXCEPT !.pc = "delete"]
        /\ UNCHANGED <<docs, made, originals, shadow_lost, calc>>
        /\ UNCHANGED <<sync, webhook, connVars, creditVars, extractVars, mailVars, initVars, persistVars, batchVars, replyVars, urgencyVars, parseVars>>

\* backup_to_redis returns False: no client, or setex raised
DEL_BackupFails ==
    /\ req.op = "delete" /\ req.pc = "backup"
    /\ shadow_lost' = [shadow_lost EXCEPT ![req.commitment_id] = TRUE]
    /\ req' = [req EXCEPT !.pc = "delete"]
    /\ UNCHANGED <<docs, shadow, made, originals, calc>>
    /\ UNCHANGED <<sync, webhook, connVars, creditVars, extractVars, mailVars, initVars, persistVars, batchVars, replyVars, urgencyVars, parseVars>>

\* doc_ref.delete(), whatever the backup returned
DEL_Delete ==
    /\ req.op = "delete" /\ req.pc = "delete"
    /\ docs' = [docs EXCEPT ![get_commitment_by_field(req.commitment_id)] = NoDoc]
    /\ req' = NoRequest
    /\ reply' = Replied(200)
    /\ UNCHANGED <<shadow, made, originals, shadow_lost, calc>>
    /\ UNCHANGED <<sync, webhook, connVars, creditVars, extractVars, mailVars, initVars, persistVars, batchVars, urgencyVars, parseVars>>

delete_commitment ==
    \/ \E commitment_id \in CommitmentIds : DEL_NotFound(commitment_id)
    \/ \E commitment_id \in CommitmentIds : DEL_Lookup(commitment_id)
    \/ DEL_Backup
    \/ DEL_BackupFails
    \/ DEL_Delete

\* a restore that writes no deadline
RestoreDropsDeadline(commitment_data, restored_at, updated_at) ==
    [commitment_data EXCEPT !.restored_at = restored_at,
                            !.updated_at = updated_at,
                            !.completed = FALSE,
                            !.status = "active",
                            !.deadline_iso = NullDeadline]

\* what restore writes: the backed-up data with four keys set
RestoredDoc(commitment_data, restored_at, updated_at) ==
    [commitment_data EXCEPT !.restored_at = restored_at,
                            !.updated_at = updated_at,
                            !.completed = FALSE,
                            !.status = "active"]

\* POST /restore/{commitment_id}: 'if not redis_client', 400
RES_NoClient(commitment_id) ==
    /\ req.op = "none"
    /\ reply' = Replied(400)
    /\ UNCHANGED <<routeVars, sync, webhook, connVars, creditVars, extractVars, mailVars, initVars, persistVars, batchVars, urgencyVars, parseVars>>

\* redis_client.get(key) raises: 'except Exception', 500
RES_GetRaises(commitment_id) ==
    /\ req.op = "none"
    /\ reply' = Replied(500)
    /\ UNCHANGED <<routeVars, sync, webhook, connVars, creditVars, extractVars, mailVars, initVars, persistVars, batchVars, urgencyVars, parseVars>>

\* the store answers and has no such key: 'if not data', 404
RES_NotFound(commitment_id) ==
    /\ req.op = "none"
    /\ ~shadow[commitment_id].key
    /\ reply' = Replied(404)
    /\ UNCHANGED <<routeVars, sync, webhook, connVars, creditVars, extractVars, mailVars, initVars, persistVars, batchVars, urgencyVars, parseVars>>

\* the store answers with the text under the key
RES_Get(commitment_id) ==
    /\ req.op = "none"
    /\ shadow[commitment_id].key
    /\ req' = [op |-> "restore", pc |-> "set", commitment_id |-> commitment_id,
               data |-> json_loads(shadow[commitment_id].text).data]
    /\ UNCHANGED <<docs, shadow, made, originals, shadow_lost, calc>>
    /\ UNCHANGED <<sync, webhook, connVars, creditVars, extractVars, mailVars, initVars, persistVars, batchVars, replyVars, urgencyVars, parseVars>>

\* the document is written under the id of the request
RES_Set ==
    LET restored_at == RestoredAt
        updated_at == RestoredAt
    IN  /\ req.op = "restore" /\ req.pc = "set"
        /\ docs' = [docs EXCEPT ![req.commitment_id] =
                        RestoredDoc(req.data, restored_at, updated_at)]
        /\ req' = [req EXCEPT !.pc = "remove"]
        /\ UNCHANGED <<shadow, made, originals, shadow_lost, calc>>
        /\ UNCHANGED <<sync, webhook, connVars, creditVars, extractVars, mailVars, initVars, persistVars, batchVars, replyVars, urgencyVars, parseVars>>

\* redis_client.delete(key)
RES_Remove ==
    /\ req.op = "restore" /\ req.pc = "remove"
    /\ shadow' = [shadow EXCEPT ![req.commitment_id] = NoKey]
    /\ originals' = [originals EXCEPT ![req.commitment_id] = NoDoc]
    /\ req' = NoRequest
    /\ reply' = Replied(200)
    /\ UNCHANGED <<docs, made, shadow_lost, calc>>
    /\ UNCHANGED <<sync, webhook, connVars, creditVars, extractVars, mailVars, initVars, persistVars, batchVars, urgencyVars, parseVars>>

\* redis_client.delete(key) raises: 500, the key stays
RES_RemoveFails ==
    /\ req.op = "restore" /\ req.pc = "remove"
    /\ shadow_lost' = [shadow_lost EXCEPT ![req.commitment_id] = TRUE]
    /\ originals' = [originals EXCEPT ![req.commitment_id] = NoDoc]
    /\ req' = NoRequest
    /\ reply' = Replied(500)
    /\ UNCHANGED <<docs, shadow, made, calc>>
    /\ UNCHANGED <<sync, webhook, connVars, creditVars, extractVars, mailVars, initVars, persistVars, batchVars, urgencyVars, parseVars>>

restore_deleted_commitment ==
    \/ \E commitment_id \in CommitmentIds : RES_NoClient(commitment_id)
    \/ \E commitment_id \in CommitmentIds : RES_GetRaises(commitment_id)
    \/ \E commitment_id \in CommitmentIds : RES_NotFound(commitment_id)
    \/ \E commitment_id \in CommitmentIds : RES_Get(commitment_id)
    \/ RES_Set
    \/ RES_Remove
    \/ RES_RemoveFails

\* the 24 hours of a key are over (the key the executing DELETE wrote is
\* younger)
ShadowExpires(commitment_id) ==
    /\ shadow[commitment_id].key
    /\ ~(req.op = "delete" /\ req.commitment_id = commitment_id)
    /\ shadow' = [shadow EXCEPT ![commitment_id] = NoKey]
    /\ shadow_lost' = [shadow_lost EXCEPT ![commitment_id] = TRUE]
    /\ UNCHANGED <<docs, req, made, originals, calc>>
    /\ UNCHANGED <<sync, webhook, connVars, creditVars, extractVars, mailVars, initVars, persistVars, batchVars, replyVars, urgencyVars, parseVars>>

InitRoutes ==
    /\ docs = [k \in CommitmentIds |-> NoDoc]
    /\ shadow = [k \in CommitmentIds |-> NoKey]
    /\ req = NoRequest
    /\ made = 0
    /\ originals = [k \in CommitmentIds |-> NoDoc]
    /\ shadow_lost = [k \in CommitmentIds |-> FALSE]
    /\ calc = IdleCalc

(***************************************************************************)
(* extract_commitments_from_email                                          *)
(* (src/services/gmail/extract_initial_commitments.py): the credit gate    *)
(* read once, then up to RETRY_ATTEMPTS + 1 model calls, each followed by  *)
(* its metering and by the validation of what the model answered.  An      *)
(* answer is told apart by what _safe_parse_json, _validate_schema and     *)
(* _post_process_commitments look at.                                      *)
(***************************************************************************)
Folders == {"INBOX", "SENT"}

\* estimated_hours of the commitments of an answer: the key is absent, or
\* its value is null, a text or a number
AbsentHours == [kind |-> "absent", value |-> 0]
NullHours == [kind |-> "null", value |-> 0]
TextHours == [kind |-> "text", value |-> 0]
NumberHours(h) == [kind |-> "number", value |-> h]
HoursValues == {AbsentHours, NullHours, TextHours} \cup {NumberHours(h) : h \in 0..1}

\* the content is not JSON (or the call gave no content): parsed is None
NoJson ==
    [ parsed |-> FALSE, top_level |-> FALSE, direction |-> "absent",
      has_commitment |-> FALSE, n |-> 0, item |-> "dict", required |-> FALSE,
      estimated_hours |-> AbsentHours ]

\* a JSON object without a boolean has_commitment, a well-formed
\* email_metadata and classification, or a list of commitments
Malformed == [NoJson EXCEPT !.parsed = TRUE]

\* a JSON object with these; n commitments, all dicts or all texts; required:
\* every dict has the required keys other than estimated_hours and a
\* boolean assigned_to_me
WellFormed ==
    { [ parsed |-> TRUE, top_level |-> TRUE, direction |-> d,
        has_commitment |-> hc, n |-> 0, item |-> "dict", required |-> FALSE,
        estimated_hours |-> AbsentHours ] :
        d \in {"absent", "incoming", "outgoing", "sideways"}, hc \in BOOLEAN }
    \cup
    { [ parsed |-> TRUE, top_level |-> TRUE, direction |-> d,
        has_commitment |-> hc, n |-> n, item |-> "str", required |-> FALSE,
        estimated_hours |-> AbsentHours ] :
        d \in {"absent", "incoming", "outgoing", "sideways"}, hc \in BOOLEAN,
        n \in 1..MaxExtracted }
    \cup
    { [ parsed |-> TRUE, top_level |-> TRUE, direction |-> d,
        has_commitment |-> hc, n |-> n, item |-> "dict", required |-> r,
        estimated_hours |-> h ] :
        d \in {"absent", "incoming", "outgoing", "sideways"}, hc \in BOOLEAN,
        n \in 1..MaxExtracted, r \in BOOLEAN, h \in HoursValues }

ModelAnswers == {NoJson, Malformed} \cup WellFormed

_validate_schema(obj) ==
    /\ obj.parsed
    /\ obj.top_level
    /\ obj.direction \in {"absent", "incoming", "outgoing"}
    /\ (obj.has_commitment /\ obj.n > 0) =>
           /\ obj.item = "dict"
           /\ obj.required
           /\ obj.estimated_hours.kind = "number"

\* 'for c in commitments: c["given_by"] = email_sender' raises TypeError on
\* an item that is a text
PostProcessRaises(obj) == obj.n > 0 /\ obj.item = "str"

\* the default of the commitment type, for the types of the prompt
DefaultHours == NumberHours(1)

\* _post_process_commitments, estimated_hours: only a None is replaced
PostProcessedHours(obj) ==
    IF obj.estimated_hours.kind \in {"absent", "null"} THEN DefaultHours
    ELSE obj.estimated_hours

NoUsage == 0 - 1
Usages == {NoUsage} \cup Amounts

\* what the call returned to its caller
NotReturned == [kind |-> "none", has_commitment |-> FALSE, n |-> 0]
NoCreditsResult == [kind |-> "no_credits", has_commitment |-> FALSE, n |-> 0]
FallbackResult == [kind |-> "fallback", has_commitment |-> FALSE, n |-> 0]
ParsedResult(obj) == [kind |-> "parsed", has_commitment |-> obj.has_commitment, n |-> obj.n]
Raised == [kind |-> "raised", has_commitment |-> FALSE, n |-> 0]

IdleExtraction ==
    [ pc |-> "idle", attempt |-> 0, answer |-> NoJson, usage |-> NoUsage,
      events |-> << >>, result |-> NotReturned ]

InitExtract == extraction = IdleExtraction

\* the gate: has_enough_credits(user_id) is read before the loop
EX_Gate ==
    /\ extraction.pc = "idle"
    /\ extraction' =
          IF has_enough_credits THEN [extraction EXCEPT !.pc = "call"]
          ELSE [extraction EXCEPT !.pc = "returned", !.result = NoCreditsResult]
    /\ UNCHANGED <<sync, webhook, routeVars, connVars, creditVars, mailVars, initVars, persistVars, batchVars, replyVars, urgencyVars, parseVars>>

\* _call_openai: the model answers, with or without usage; a call that
\* raised gives (None, None, None)
EX_Call ==
    \E obj \in ModelAnswers, usage \in Usages :
        /\ extraction.pc = "call"
        /\ extraction' = [extraction EXCEPT
                             !.pc = "meter", !.answer = obj, !.usage = usage,
                             !.events = Append(@, IF usage = NoUsage THEN "call"
                                                  ELSE "call_with_usage")]
        /\ UNCHANGED <<sync, webhook, routeVars, connVars, creditVars, mailVars, initVars, persistVars, batchVars, replyVars, urgencyVars, parseVars>>

\* 'if resp is not None and getattr(resp, "usage", None)' is false
EX_NoUsage ==
    /\ extraction.pc = "meter"
    /\ extraction.usage = NoUsage
    /\ extraction' = [extraction EXCEPT !.pc = "validate"]
    /\ UNCHANGED <<sync, webhook, routeVars, connVars, creditVars, mailVars, initVars, persistVars, batchVars, replyVars, urgencyVars, parseVars>>

\* deduct_credits(user_id, credits_spent) commits
EX_Deduct ==
    /\ extraction.pc = "meter"
    /\ extraction.usage # NoUsage
    /\ credits' = [credits EXCEPT
                      !.credits_remaining = new_remaining(@, extraction.usage),
                      !.credits_used = new_used(@, extraction.usage)]
    /\ doc_version' = doc_version + 1
    /\ ledger' = Append(ledger, extraction.usage)
    /\ extraction' = [extraction EXCEPT !.pc = "validate", !.usage = NoUsage,
                                        !.events = Append(@, "debit")]
    /\ UNCHANGED <<calls, sync, webhook, routeVars, connVars, mailVars, initVars, persistVars, batchVars, replyVars, urgencyVars, parseVars>>

\* a metering whose exception leaves the function
EX_DeductAborts ==
    /\ extraction.pc = "meter"
    /\ extraction.usage # NoUsage
    /\ extraction' = [extraction EXCEPT !.pc = "raised", !.result = Raised,
                                        !.events = Append(@, "debit_failed")]
    /\ UNCHANGED <<sync, webhook, routeVars, connVars, creditVars, mailVars, initVars, persistVars, batchVars, replyVars, urgencyVars, parseVars>>

\* deduct_credits raises (the transaction gave up, the document is gone):
\* 'except Exception' prints and the loop goes on
EX_DeductRaises ==
    /\ extraction.pc = "meter"
    /\ extraction.usage # NoUsage
    /\ extraction' = [extraction EXCEPT !.pc = "validate", !.usage = NoUsage,
                                        !.events = Append(@, "debit_failed")]
    /\ UNCHANGED <<sync, webhook, routeVars, connVars, creditVars, mailVars, initVars, persistVars, batchVars, replyVars, urgencyVars, parseVars>>

\* the loop runs range(RETRY_ATTEMPTS + 1)
LastAttempt(attempt) == attempt + 1 = RETRY_ATTEMPTS + 1

\* 'if parsed and _validate_schema(parsed)': the answer is post-processed
\* and returned; otherwise time.sleep(1) and the next attempt, and after the
\* last one the fallback result
EX_Validate ==
    /\ extraction.pc = "validate"
    /\ extraction' =
          IF _validate_schema(extraction.answer)
          THEN IF PostProcessRaises(extraction.answer)
               THEN [extraction EXCEPT !.pc = "raised", !.result = Raised]
               ELSE [extraction EXCEPT !.pc = "returned",
                                       !.result = ParsedResult(extraction.answer)]
          ELSE IF LastAttempt(extraction.attempt)
               THEN [extraction EXCEPT !.pc = "returned", !.answer = NoJson,
                                       !.result = FallbackResult]
               ELSE [extraction EXCEPT !.pc = "call", !.answer = NoJson,
                                       !.attempt = @ + 1]
    /\ UNCHANGED <<sync, webhook, routeVars, connVars, creditVars, mailVars, initVars, persistVars, batchVars, replyVars, urgencyVars, parseVars>>

extract_commitments_from_email ==
    \/ EX_Gate
    \/ EX_Call
    \/ EX_NoUsage
    \/ EX_Deduct
    \/ EX_DeductRaises
    \/ EX_Validate

(***************************************************************************)
(* What the two pipelines store of an answer the extractor returned:       *)
(* process_email_batch (src/tools/gmail/initial_sync.py) for the backfill  *)
(* and process_new_email (src/tools/gmail/process_new_email.py) for a live *)
(* message build one document per commitment of the answer.  The document  *)
(* is kept here by its direction, its source_email_folder and its          *)
(* estimated_hours.                                                        *)
(***************************************************************************)
Pipelines == {"backfill", "live"}

NotStored ==
    [ saved |-> FALSE, direction |-> "none", source_email_folder |-> "none",
      estimated_hours |-> AbsentHours ]

StoredCommitment(direction, folder, hours) ==
    [ saved |-> TRUE, direction |-> direction, source_email_folder |-> folder,
      estimated_hours |-> hours ]

Given(obj, folder, pipeline) ==
    [ pc |-> "given", answer |-> obj, folder |-> folder, pipeline |-> pipeline,
      doc |-> NotStored ]

IdlePersist == [Given(NoJson, "INBOX", "backfill") EXCEPT !.pc = "idle"]

InitPersist == persisted = IdlePersist

\* ai_result.get("direction", "incoming") of the backfill and
\* 'direction if direction else "incoming"' of the live pipeline
StoredDirection(obj, folder) ==
    IF obj.direction = "absent" THEN "incoming" ELSE obj.direction

\* the extractor returns the answer, and the caller goes on to its loop
\* over the commitments when has_commitment is true
ReachesSave(obj) ==
    /\ _validate_schema(obj)
    /\ ~PostProcessRaises(obj)
    /\ obj.has_commitment
    /\ obj.n > 0

\* process_email_batch: commitment_doc and save_commitment_to_firestore
PersistBackfill ==
    /\ persisted.pc = "given" /\ persisted.pipeline = "backfill"
    /\ persisted' =
          IF ReachesSave(persisted.answer)
          THEN [persisted EXCEPT !.pc = "saved", !.doc =
                   StoredCommitment(StoredDirection(persisted.answer, persisted.folder),
                                    persisted.folder,
                                    PostProcessedHours(persisted.answer))]
          ELSE [persisted EXCEPT !.pc = "skipped"]
    /\ UNCHANGED <<sync, webhook, routeVars, connVars, creditVars, extractVars, mailVars, initVars, batchVars, replyVars, urgencyVars, parseVars>>

\* process_new_email: commitment_doc and save_commitment_to_firestore
PersistLive ==
    /\ persisted.pc = "given" /\ persisted.pipeline = "live"
    /\ persisted' =
          IF ReachesSave(persisted.answer)
          THEN [persisted EXCEPT !.pc = "saved", !.doc =
                   StoredCommitment(StoredDirection(persisted.answer, persisted.folder),
                                    persisted.folder,
                                    PostProcessedHours(persisted.answer))]
          ELSE [persisted EXCEPT !.pc = "skipped"]
    /\ UNCHANGED <<sync, webhook, routeVars, connVars, creditVars, extractVars, mailVars, initVars, batchVars, replyVars, urgencyVars, parseVars>>

(***************************************************************************)
(* run_initial_sync folder by folder (src/tools/gmail/initial_sync.py):    *)
(* the pages of INBOX are fetched, process_email_batch goes through the    *)
(* fetched messages, then the same for SENT.  fetched counts the messages  *)
(* of a folder that are in the window and pass the newsletter filter,      *)
(* outcomes says what became of each of them, stored counts the documents  *)
(* the run saved.                                                          *)
(***************************************************************************)
IdleBatch ==
    [ pc |-> "idle", folder |-> "INBOX", page_token |-> None,
      attempted |-> [f \in Folders |-> FALSE],
      fetch_failed |-> [f \in Folders |-> FALSE],
      fetched |-> [f \in Folders |-> 0],
      outcomes |-> [f \in Folders |-> << >>],
      stored |-> [f \in Folders |-> 0] ]

InitBatch == batch = IdleBatch

\* run_initial_sync is called: STEP 1 starts with the INBOX pages
RIS_Start ==
    /\ batch.pc = "idle"
    /\ batch' = [batch EXCEPT !.pc = "fetch", !.folder = "INBOX"]
    /\ UNCHANGED <<sync, webhook, routeVars, connVars, creditVars, extractVars, mailVars, initVars, persistVars, replyVars, urgencyVars, parseVars>>

\* the page tokens the aggregator hands out; None: no nextPageToken
PageTokens == 0..MaxTokens

\* 'if fetched_count >= MAX_COUNT_INBOX: break' at the top of the loop; the
\* cap of a folder is MaxMessages here
CapReached == batch.fetched[batch.folder] >= MaxMessages

RIS_CapReached ==
    /\ batch.pc = "fetch"
    /\ CapReached
    /\ batch' = [batch EXCEPT !.pc = "process"]
    /\ UNCHANGED <<sync, webhook, routeVars, connVars, creditVars, extractVars, mailVars, initVars, persistVars, replyVars, urgencyVars, parseVars>>

\* composio.tools.execute(GMAIL_FETCH_EMAILS) returns a page: its messages
\* are appended up to the cap, and the loop goes on while there is a
\* nextPageToken
RIS_FetchPage ==
    \E page \in 0..MaxMessages, nextPageToken \in PageTokens :
        /\ batch.pc = "fetch"
        /\ ~CapReached
        /\ batch' = [batch EXCEPT
                        !.attempted[batch.folder] = TRUE,
                        !.fetched[batch.folder] = Min(@ + page, MaxMessages),
                        !.page_token = nextPageToken,
                        !.pc = IF nextPageToken = None THEN "process" ELSE "fetch"]
    /\ UNCHANGED <<sync, webhook, routeVars, connVars, creditVars, extractVars, mailVars, initVars, persistVars, replyVars, urgencyVars, parseVars>>

\* a fetch that raises out of run_initial_sync
RIS_FetchAborts ==
    /\ batch.pc = "fetch"
    /\ ~CapReached
    /\ batch' = [batch EXCEPT !.attempted[batch.folder] = TRUE,
                              !.fetch_failed[batch.folder] = TRUE,
                              !.pc = "done"]
    /\ UNCHANGED <<sync, webhook, routeVars, connVars, creditVars, extractVars, mailVars, initVars, persistVars, replyVars, urgencyVars, parseVars>>

\* the call raises: 'except Exception: time.sleep(2); break', and the
\* messages of the earlier pages go to process_email_batch
RIS_FetchRaises ==
    /\ batch.pc = "fetch"
    /\ ~CapReached
    /\ batch' = [batch EXCEPT !.attempted[batch.folder] = TRUE,
                              !.fetch_failed[batch.folder] = TRUE,
                              !.pc = "process"]
    /\ UNCHANGED <<sync, webhook, routeVars, connVars, creditVars, extractVars, mailVars, initVars, persistVars, replyVars, urgencyVars, parseVars>>

Outcome(b, outcome) ==
    [b EXCEPT !.outcomes[b.folder] = Append(@, outcome)]

MessageLeft == Len(batch.outcomes[batch.folder]) < batch.fetched[batch.folder]

\* extract_commitments_from_email raises: 'except Exception: continue'
PB_ExtractorRaises ==
    /\ batch.pc = "process" /\ MessageLeft
    /\ batch' = Outcome(batch, "extractor_raised")
    /\ UNCHANGED <<sync, webhook, routeVars, connVars, creditVars, extractVars, mailVars, initVars, persistVars, replyVars, urgencyVars, parseVars>>

\* 'if not ai_result.get("has_commitment"): continue'
PB_NoCommitment ==
    /\ batch.pc = "process" /\ MessageLeft
    /\ batch' = Outcome(batch, "no_commitment")
    /\ UNCHANGED <<sync, webhook, routeVars, connVars, creditVars, extractVars, mailVars, initVars, persistVars, replyVars, urgencyVars, parseVars>>

\* save_commitment_to_firestore returns the id of the new document
PB_Saved ==
    /\ batch.pc = "process" /\ MessageLeft
    /\ batch' = [Outcome(batch, "saved") EXCEPT !.stored[batch.folder] = @ + 1]
    /\ UNCHANGED <<sync, webhook, routeVars, connVars, creditVars, extractVars, mailVars, initVars, persistVars, replyVars, urgencyVars, parseVars>>

\* save_commitment_to_firestore returns False or raises: printed, and the
\* loop goes on
PB_SaveFails ==
    /\ batch.pc = "process" /\ MessageLeft
    /\ batch' = Outcome(batch, "save_failed")
    /\ UNCHANGED <<sync, webhook, routeVars, connVars, creditVars, extractVars, mailVars, initVars, persistVars, replyVars, urgencyVars, parseVars>>

\* the batch is through: STEP 2 fetches SENT, and after SENT the summary
PB_Return ==
    /\ batch.pc = "process" /\ ~MessageLeft
    /\ batch' = IF batch.folder = "INBOX"
                THEN [batch EXCEPT !.pc = "fetch", !.folder = "SENT",
                                   !.page_token = None]
                ELSE [batch EXCEPT !.pc = "done"]
    /\ UNCHANGED <<sync, webhook, routeVars, connVars, creditVars, extractVars, mailVars, initVars, persistVars, replyVars, urgencyVars, parseVars>>

process_email_batch ==
    \/ PB_ExtractorRaises
    \/ PB_NoCommitment
    \/ PB_Saved
    \/ PB_SaveFails
    \/ PB_Return

(***************************************************************************)
(* get_urgency_score (src/services/gmail/commitments/status_calculator.py) *)
(* on a commitment dict whose status fields recalculate_status has just    *)
(* written for the same date.                                              *)
(***************************************************************************)
get_urgency_score(commitment, today) ==
    IF commitment.status = "overdue"
    THEN Max(0, 100 - commitment.days_overdue)
    ELSE IF commitment.status = "due_today"
    THEN 100
    ELSE IF commitment.status = "active" /\ Truthy(commitment.deadline_iso)
    THEN LET deadline_date == fromisoformat(ReplaceZ(commitment.deadline_iso))
             days_until == deadline_date - today
         IN  IF deadline_date = ValueError THEN 1000
             ELSE IF days_until <= 7 THEN 200 + days_until
             ELSE 300 + days_until
    ELSE 1000

\* the date of the call, late enough for MaxOverdue days of delay
ScoreToday == MaxOverdue + 1
ScoreDays == 1..(ScoreToday + MaxUntil)

\* non-completed commitments as recalculate_status leaves them
ScoreInputs ==
    { recalculate_status(
          CommitmentFields(dl, FALSE, Derived("no_deadline", 0, FALSE)), ScoreToday) :
          dl \in {NullDeadline} \cup {IsoDate(d) : d \in ScoreDays}
                    \cup {IsoDateTimeZ(d) : d \in ScoreDays} }

IdleUrgency ==
    [ pc |-> "given", today |-> ScoreToday, score |-> 0,
      commitment |-> CommitmentFields(NullDeadline, FALSE, Derived("no_deadline", 0, FALSE)) ]

InitUrgency == urgency = IdleUrgency

Score ==
    /\ urgency.pc = "given"
    /\ urgency' = [urgency EXCEPT
                      !.pc = "scored",
                      !.score = get_urgency_score(urgency.commitment, urgency.today)]
    /\ UNCHANGED <<sync, webhook, routeVars, connVars, creditVars, extractVars, mailVars, initVars, persistVars, batchVars, replyVars, parseVars>>

(***************************************************************************)
(* parse_deadline_raw (src/services/gmail/deadline_parser.py) on the       *)
(* phrases made of a weekday name, "today", "tomorrow" and "week".  The    *)
(* normalized text is the sequence of its words; day 1 is a Monday.        *)
(***************************************************************************)
WeekdayNames ==
    <<"monday", "tuesday", "wednesday", "thursday", "friday", "saturday", "sunday">>

\* WEEKDAY_MAP[wd]
WEEKDAY_MAP(wd) == (CHOOSE i \in 1..7 : WeekdayNames[i] = wd) - 1

\* date.weekday(): 0 is Monday
weekday(day) == (day - 1) % 7

Words(txt) == {txt[i] : i \in 1..Len(txt)}
IsWeekday(word) == \E i \in 1..7 : WeekdayNames[i] = word

\* a parser that takes every weekday phrase as a "next" phrase
WeekdayAlwaysNext(reference, target_wd, which) ==
    LET days_ahead == (target_wd - weekday(reference) + 7) % 7
    IN  reference + (IF days_ahead # 0 THEN days_ahead ELSE 7)

_weekday_after(reference, target_wd, which) ==
    LET days_ahead == (target_wd - weekday(reference) + 7) % 7
    IN  reference + (IF which = "next" /\ days_ahead = 0 THEN 7 ELSE days_ahead)

\* re.search of the weekday pattern: the first weekday name of the text and
\* the "next" or "this" right before it (m.group(1) or 'this')
WeekdayMatch(txt) ==
    LET i == CHOOSE j \in 1..Len(txt) :
                 IsWeekday(txt[j]) /\ \A k \in 1..(j - 1) : ~IsWeekday(txt[k])
    IN  [ wd |-> txt[i],
          which |-> IF i > 1 /\ txt[i - 1] \in {"next", "this"}
                    THEN txt[i - 1] ELSE "this" ]

parse_deadline_raw(txt, email_date) ==
    IF txt = << >> THEN NullDeadline
    ELSE IF "today" \in Words(txt) THEN IsoDate(email_date)
    ELSE IF "tomorrow" \in Words(txt) THEN IsoDate(email_date + 1)
    ELSE IF \E word \in Words(txt) : IsWeekday(word)
    THEN LET m == WeekdayMatch(txt)
         IN  IsoDate(_weekday_after(email_date, WEEKDAY_MAP(m.wd), m.which))
    ELSE IF txt = <<"next", "week">> THEN IsoDate(email_date + 7)
    ELSE IF txt = <<"this", "week">> THEN IsoDate(email_date + (6 - weekday(email_date)))
    ELSE NullDeadline

\* the phrases: by/due/on/before or nothing, next/this or nothing, a weekday
Prefixes == {<< >>, <<"by">>, <<"due">>, <<"on">>, <<"before">>}
Qualifiers == {<< >>, <<"this">>, <<"next">>}
WeekdayPhrases ==
    { prefix \o which \o <<WeekdayNames[i]>> :
          prefix \in Prefixes, which \in Qualifiers, i \in 1..7 }
Phrases ==
    WeekdayPhrases
        \cup {<< >>, <<"today">>, <<"by", "tomorrow">>, <<"next", "week">>, <<"this", "week">>}

EmailDays == 1..MaxEmailDay

IdleParse ==
    [pc |-> "given", deadline_raw |-> << >>, email_date |-> 1, result |-> NullDeadline]

InitParse == parsing = IdleParse

Parse ==
    /\ parsing.pc = "given"
    /\ parsing' = [parsing EXCEPT
                      !.pc = "parsed",
                      !.result = parse_deadline_raw(parsing.deadline_raw, parsing.email_date)]
    /\ UNCHANGED <<sync, webhook, routeVars, connVars, creditVars, extractVars, mailVars, initVars, persistVars, batchVars, replyVars, urgencyVars>>

(***************************************************************************)
(* The backfill: run_initial_sync (src/tools/gmail/initial_sync.py) hands  *)
(* the fetched messages, one after another, to                             *)
(* extract_commitments_from_email and saves what it answers.  No step      *)
(* looks for a commitment the message already has.                         *)
(***************************************************************************)
IdleSync ==
    [ pc |-> "idle", messages |-> 0, msg |-> 0, attempt |-> 0, to_save |-> 0,
      hook_calls |-> 0 ]

InitSync == sync = IdleSync

InitRest ==
    /\ InitSync
    /\ InitWebhook
    /\ InitRoutes
    /\ InitExtract
    /\ InitInits
    /\ InitPersist
    /\ InitBatch
    /\ InitParse
    /\ InitUrgency
    /\ InitReply

\* "continue" of the loop over the messages, or its end
NextMessage(s) ==
    IF s.msg = s.messages
    THEN [s EXCEPT !.pc = "done", !.attempt = 0, !.to_save = 0]
    ELSE [s EXCEPT !.pc = "extract", !.msg = @ + 1, !.attempt = 0, !.to_save = 0]

\* the messages of the window that pass the newsletter filter are fetched
BF_Start ==
    \E fetched \in 1..MaxMessages :
        /\ sync.pc = "idle"
        /\ sync' = [IdleSync EXCEPT !.pc = "extract", !.messages = fetched, !.msg = 1]
        /\ UNCHANGED <<webhook, routeVars, connVars, creditVars, extractVars, mailVars, initVars, persistVars, batchVars, replyVars, urgencyVars, parseVars>>

\* extract_commitments_from_email starts: has_enough_credits is read once,
\* before the loop of model calls
BF_ExtractGate ==
    /\ sync.pc = "extract"
    /\ sync' = IF has_enough_credits THEN [sync EXCEPT !.pc = "call"]
               ELSE NextMessage(sync)
    /\ UNCHANGED <<webhook, routeVars, connVars, creditVars, extractVars, mailVars, initVars, persistVars, batchVars, replyVars, urgencyVars, parseVars>>

\* an attempt without a valid answer: the next attempt, or after
\* RETRY_ATTEMPTS + 1 attempts the fallback answer has_commitment False
BF_AfterInvalid(s) ==
    IF s.attempt + 1 = RETRY_ATTEMPTS + 1 THEN NextMessage(s)
    ELSE [s EXCEPT !.attempt = @ + 1]

\* an attempt with a valid answer: its commitments are saved
BF_AfterExtract(s, has_commitment, n) ==
    IF has_commitment /\ n > 0 THEN [s EXCEPT !.pc = "save", !.attempt = 0, !.to_save = n]
    ELSE NextMessage(s)

\* one model call that gave no response with usage: nothing is deducted
BF_CallRaises ==
    /\ sync.pc = "call"
    /\ sync' = BF_AfterInvalid(sync)
    /\ UNCHANGED <<webhook, routeVars, connVars, creditVars, extractVars, mailVars, initVars, persistVars, batchVars, replyVars, urgencyVars, parseVars>>

\* one model call that answered: deduct_credits(usage), the pause hook when
\* the new remaining is 0, then the validation of the answer
BF_CallAnswers ==
    \E credits_spent \in Amounts, valid, has_commitment \in BOOLEAN, n \in 0..MaxExtracted :
        /\ sync.pc = "call"
        /\ credits' = [credits EXCEPT
                          !.credits_remaining = new_remaining(@, credits_spent),
                          !.credits_used = new_used(@, credits_spent)]
        /\ doc_version' = doc_version + 1
        /\ ledger' = Append(ledger, credits_spent)
        /\ sync' = [ (IF valid THEN BF_AfterExtract(sync, has_commitment, n)
                      ELSE BF_AfterInvalid(sync))
                     EXCEPT !.hook_calls =
                        IF new_remaining(credits.credits_remaining, credits_spent) <= 0
                           /\ PauseHookImportable
                        THEN @ + 1 ELSE @ ]
        /\ UNCHANGED <<calls, webhook, routeVars, connVars, extractVars, mailVars, initVars, persistVars, batchVars, replyVars, urgencyVars, parseVars>>

\* save_commitment_to_firestore for one commitment of the answer
BF_Save ==
    /\ sync.pc = "save"
    /\ commitments' = [commitments EXCEPT ![sync.msg] = @ + 1]
    /\ sync' = IF sync.to_save = 1 THEN NextMessage(sync)
               ELSE [sync EXCEPT !.to_save = @ - 1]
    /\ UNCHANGED <<runs, webhook, routeVars, connVars, creditVars, extractVars, initVars, persistVars, batchVars, replyVars, urgencyVars, parseVars>>

run_initial_sync ==
    \/ BF_Start
    \/ BF_ExtractGate
    \/ BF_CallRaises
    \/ BF_CallAnswers
    \/ BF_Save

Init == InitConn /\ InitCredits /\ InitMail /\ InitRest

Next ==
    \/ ConnectGmail
    \/ check_gmail_connection
    \/ composio_callback_endpoint
    \/ register_gmail_trigger
    \/ disconnect_gmail_endpoint
    \/ Tick
    \/ \E t \in BagToSet(tasks) : FT_Start(t)
    \/ \E t \in BagToSet(tasks) : FT_RunInitialSync(t)
    \/ \E t \in BagToSet(tasks) : FT_SyncRaises(t)
    \/ \E t \in BagToSet(tasks) : FT_CreateInbox(t)
    \/ \E t \in BagToSet(tasks) : FT_CreateSent(t)
    \/ \E t \in BagToSet(tasks) : FT_CreateRaises(t)
    \/ \E t \in BagToSet(tasks) : FT_MarkFirstConnection(t)
    \/ \E t \in BagToSet(tasks) : FT_Complete(t)
    \/ \E t \in BagToSet(tasks) : RC_CreateInbox(t)
    \/ \E t \in BagToSet(tasks) : RC_CreateSent(t)
    \/ \E t \in BagToSet(tasks) : RC_CreateRaises(t)
    \/ \E t \in BagToSet(tasks) : RC_MarkReconnection(t)
    \/ \E t \in BagToSet(tasks) : RC_Finally(t)

Spec == Init /\ [][Next]_vars

(***************************************************************************)
(* The credit meter alone: concurrent deduct_credits calls of one user.    *)
(***************************************************************************)
CreditNext ==
    \/ initialize_credits_if_missing
    \/ \E i \in CallIds : DeductCall(i)
    \/ \E i \in CallIds : TxnRead(i)
    \/ \E i \in CallIds : TxnCommit(i)
    \/ \E i \in CallIds : TxnRetry(i)
    \/ \E i \in CallIds : AfterCommit(i)

CreditSpec == Init /\ [][CreditNext]_vars

(***************************************************************************)
(* The live pipeline with the credit fields it reads and debits.           *)
(***************************************************************************)
MailNext ==
    \/ initialize_credits_if_missing
    \/ \E r \in RunIds : composio_webhook(r)
    \/ \E r \in RunIds : PNE_Fetch(r)
    \/ \E r \in RunIds : PNE_Dedupe(r)
    \/ \E r \in RunIds : PNE_ExtractGate(r)
    \/ \E r \in RunIds : PNE_CallRaises(r)
    \/ \E r \in RunIds : PNE_CallAnswers(r)
    \/ \E r \in RunIds : PNE_Save(r)

MailSpec == Init /\ [][MailNext]_vars

(***************************************************************************)
(* The live pipeline when the deliveries of the webhook come one after     *)
(* another: a delivery arrives when no process_new_email run is in flight. *)
(***************************************************************************)
NoRunInFlight == \A q \in RunIds : runs[q].pc \in {"idle", "done"}

RedeliveryNext ==
    \/ initialize_credits_if_missing
    \/ \E r \in RunIds : NoRunInFlight /\ composio_webhook(r)
    \/ \E r \in RunIds : PNE_Fetch(r)
    \/ \E r \in RunIds : PNE_Dedupe(r)
    \/ \E r \in RunIds : PNE_ExtractGate(r)
    \/ \E r \in RunIds : PNE_CallRaises(r)
    \/ \E r \in RunIds : PNE_CallAnswers(r)
    \/ \E r \in RunIds : PNE_Save(r)

RedeliverySpec == Init /\ [][RedeliveryNext]_vars

(***************************************************************************)
(* The webhook handler alone, for a user whose credit fields are absent or *)
(* are what a sequence of deducts has left of the grant.                   *)
(***************************************************************************)
RECURSIVE CreditsAfter(_)
CreditsAfter(deducts) ==
    IF deducts = << >> THEN StoredCredits
    ELSE LET before == CreditsAfter(SubSeq(deducts, 1, Len(deducts) - 1))
             credits_spent == deducts[Len(deducts)]
         IN  [before EXCEPT
                 !.credits_remaining = new_remaining(@, credits_spent),
                 !.credits_used = new_used(@, credits_spent)]

Deducts == UNION { [1..n -> Amounts] : n \in 0..MaxDeducts }

WebhookInit ==
    /\ InitConn
    /\ InitMail
    /\ InitRest
    /\ calls = [i \in CallIds |-> IdleCall]
    /\ \/ InitCredits
       \/ /\ ledger \in Deducts
          /\ credits = CreditsAfter(ledger)
          /\ doc_version = 1 + Len(ledger)

WebhookNext ==
    \/ initialize_credits_if_missing
    \/ \E r \in RunIds : composio_webhook(r)

WebhookSpec == WebhookInit /\ [][WebhookNext]_vars

(***************************************************************************)
(* The backfill of one user with the credit fields it reads and debits.    *)
(***************************************************************************)
BackfillNext ==
    \/ initialize_credits_if_missing
    \/ BF_Start
    \/ BF_ExtractGate
    \/ BF_CallRaises
    \/ BF_CallAnswers
    \/ BF_Save

BackfillSpec == Init /\ [][BackfillNext]_vars

(***************************************************************************)
(* The commitment documents of one user under the saves and the routes.    *)
(***************************************************************************)
CommitmentNext ==
    \/ save_commitment_to_firestore
    \/ \E commitment_id \in CommitmentIds, completed \in BOOLEAN :
           mark_commitment_complete(commitment_id, completed)
    \/ delete_commitment
    \/ restore_deleted_commitment
    \/ \E commitment_id \in CommitmentIds : ShadowExpires(commitment_id)

CommitmentSpec == Init /\ [][CommitmentNext]_vars

(***************************************************************************)
(* The same documents while the shadow store answers every call: the       *)
(* backup is written and the key of a restored commitment is removed.      *)
(* Keys still expire.                                                      *)
(***************************************************************************)
RoundTripNext ==
    \/ save_commitment_to_firestore
    \/ \E commitment_id \in CommitmentIds, completed \in BOOLEAN :
           mark_commitment_complete(commitment_id, completed)
    \/ \E commitment_id \in CommitmentIds : DEL_NotFound(commitment_id)
    \/ \E commitment_id \in CommitmentIds : DEL_Lookup(commitment_id)
    \/ DEL_Backup
    \/ DEL_Delete
    \/ \E commitment_id \in CommitmentIds : RES_NotFound(commitment_id)
    \/ \E commitment_id \in CommitmentIds : RES_Get(commitment_id)
    \/ RES_Set
    \/ RES_Remove
    \/ \E commitment_id \in CommitmentIds : ShadowExpires(commitment_id)

RoundTripSpec == Init /\ [][RoundTripNext]_vars

(***************************************************************************)
(* recalculate_status on every commitment dict and date of the bounds,     *)
(* called once and then again on what it returned.                         *)
(***************************************************************************)
StatusInit ==
    /\ InitConn
    /\ InitCredits
    /\ InitMail
    /\ InitSync
    /\ InitWebhook
    /\ InitExtract
    /\ InitInits
    /\ InitPersist
    /\ InitBatch
    /\ InitParse
    /\ InitUrgency
    /\ InitReply
    /\ docs = [k \in CommitmentIds |-> NoDoc]
    /\ shadow = [k \in CommitmentIds |-> NoKey]
    /\ req = NoRequest
    /\ made = 0
    /\ originals = [k \in CommitmentIds |-> NoDoc]
    /\ shadow_lost = [k \in CommitmentIds |-> FALSE]
    /\ \E input \in CalcInputs : calc = Calc(input, "given", None, None)

StatusNext == Recalculate \/ RecalculateAgain

StatusSpec == StatusInit /\ [][StatusNext]_vars

(***************************************************************************)
(* The connection machine with the progress its scheduling gives: an       *)
(* enqueued create_trigger_on_reconnection task runs each of its steps,    *)
(* triggers.create does not raise every time it is called, and a client    *)
(* that keeps polling /check-gmail-connection is not answered only in the  *)
(* moments when the trigger lock is held.                                  *)
(***************************************************************************)
RecoveryFairness ==
    /\ SF_vars(CheckCompleted /\ ~user.trigger_creation_in_progress)
    /\ WF_vars(CheckCreateMissing)
    /\ WF_vars(\E t \in BagToSet(tasks) : RC_CreateInbox(t) \/ RC_CreateRaises(t))
    /\ WF_vars(\E t \in BagToSet(tasks) : RC_CreateSent(t) \/ RC_CreateRaises(t))
    /\ SF_vars(\E t \in BagToSet(tasks) : RC_CreateInbox(t))
    /\ SF_vars(\E t \in BagToSet(tasks) : RC_CreateSent(t))
    /\ WF_vars(\E t \in BagToSet(tasks) : RC_MarkReconnection(t))
    /\ WF_vars(\E t \in BagToSet(tasks) : RC_Finally(t))

FullRecoverySpec == Init /\ [][Next]_vars /\ RecoveryFairness

(***************************************************************************)
(* The same machine started where the recovery path starts: a user whose   *)
(* first connection has completed (create_triggers_and_sync ran once to    *)
(* its end: both triggers created and recorded, the backfill done, no task *)
(* left).  Spec reaches this state.  From it initial_sync_completed stays  *)
(* true, so of check_gmail_connection and composio_callback_endpoint only  *)
(* the branches for a returning user can be taken, and no first-time task  *)
(* is enqueued; RecoveryNext lists the steps that remain.                  *)
(***************************************************************************)
ConnectedConn ==
    /\ account = 1
    /\ accounts_made = 1
    /\ triggers = {[id |-> 1, slug |-> INBOX_SLUG, connected_account_id |-> 1],
                   [id |-> 2, slug |-> SENT_SLUG, connected_account_id |-> 1]}
    /\ triggers_made = 2
    /\ user = FirstTimeComplete(mark_first_connection(NewUserDoc, 1, 1, 2))
    /\ lock_age = 0
    /\ tasks = EmptyBag
    /\ response = NoResponse
    /\ initial_sync_runs = 1

ConnectedInit == ConnectedConn /\ InitCredits /\ InitMail /\ InitRest

RecoveryNext ==
    \/ ConnectGmail
    \/ CheckNotConnected
    \/ CheckCompleted
    \/ CheckLockRespected
    \/ CheckCreateMissing
    \/ CallbackReconnection
    \/ register_gmail_trigger
    \/ disconnect_gmail_endpoint
    \/ Tick
    \/ \E t \in BagToSet(tasks) : RC_CreateInbox(t)
    \/ \E t \in BagToSet(tasks) : RC_CreateSent(t)
    \/ \E t \in BagToSet(tasks) : RC_CreateRaises(t)
    \/ \E t \in BagToSet(tasks) : RC_MarkReconnection(t)
    \/ \E t \in BagToSet(tasks) : RC_Finally(t)

RecoverySpec == ConnectedInit /\ [][RecoveryNext]_vars /\ RecoveryFairness

(***************************************************************************)
(* The credit fields under concurrent callers: calls of                    *)
(* initialize_credits_if_missing and calls of deduct_credits, step by      *)
(* step, on a user document that starts without credit fields.             *)
(***************************************************************************)
InitializeNext ==
    \/ \E j \in InitIds : INIT_Read(j)
    \/ \E j \in InitIds : INIT_Set(j)
    \/ \E i \in CallIds : deduct_credits(i)

InitializeSpec == Init /\ [][InitializeNext]_vars

(***************************************************************************)
(* The stored document for every answer of the bounds, for a message of    *)
(* either folder, in either pipeline.                                      *)
(***************************************************************************)
PersistInit ==
    /\ InitConn
    /\ InitCredits
    /\ InitMail
    /\ InitSync
    /\ InitWebhook
    /\ InitRoutes
    /\ InitExtract
    /\ InitInits
    /\ InitBatch
    /\ InitParse
    /\ InitUrgency
    /\ InitReply
    /\ \E obj \in ModelAnswers, folder \in Folders, pipeline \in Pipelines :
          persisted = Given(obj, folder, pipeline)

PersistNext == PersistBackfill \/ PersistLive

PersistSpec == PersistInit /\ [][PersistNext]_vars

(***************************************************************************)
(* get_urgency_score on every recalculated commitment of the bounds.       *)
(***************************************************************************)
ScoreInit ==
    /\ InitConn /\ InitCredits /\ InitMail
    /\ InitSync /\ InitWebhook /\ InitRoutes /\ InitExtract /\ InitInits
    /\ InitPersist /\ InitBatch /\ InitReply /\ InitParse
    /\ \E commitment \in ScoreInputs :
          urgency = [IdleUrgency EXCEPT !.commitment = commitment]

ScoreNext == Score

ScoreSpec == ScoreInit /\ [][ScoreNext]_vars

(***************************************************************************)
(* parse_deadline_raw on every phrase and email date of the bounds.        *)
(***************************************************************************)
ParseInit ==
    /\ InitConn /\ InitCredits /\ InitMail
    /\ InitSync /\ InitWebhook /\ InitRoutes /\ InitExtract /\ InitInits
    /\ InitPersist /\ InitBatch /\ InitReply /\ InitUrgency
    /\ \E txt \in Phrases, email_date \in EmailDays :
          parsing = [IdleParse EXCEPT !.deadline_raw = txt, !.email_date = email_date]

ParseNext == Parse

ParseSpec == ParseInit /\ [][ParseNext]_vars

(***************************************************************************)
(* One backfill, folder by folder.  run_initial_sync is a synchronous      *)
(* function: once called it runs until it returns or waits for the         *)
(* aggregator.                                                             *)
(***************************************************************************)
BatchNext ==
    \/ RIS_Start
    \/ RIS_CapReached
    \/ RIS_FetchPage
    \/ RIS_FetchRaises
    \/ process_email_batch

\* the aggregator's paging ends: a page without nextPageToken comes
LastPage == RIS_FetchPage /\ batch'.pc = "process"

BatchSpec ==
    Init /\ [][BatchNext]_vars /\ WF_vars(BatchNext) /\ SF_vars(LastPage)

\* the same backfill when the aggregator answers as it likes
PagingSpec == Init /\ [][BatchNext]_vars /\ WF_vars(BatchNext)

(***************************************************************************)
(* One extraction of a user whose credits were initialized: some of the    *)
(* trial credits are left, or none.                                        *)
(***************************************************************************)
ExtractInit ==
    /\ InitConn /\ InitMail /\ InitRest
    /\ \E remaining \in 0..DEFAULT_FREE_TRIAL_CREDITS :
          credits = [StoredCredits EXCEPT
                        !.credits_remaining = remaining,
                        !.credits_used = DEFAULT_FREE_TRIAL_CREDITS - remaining]
    /\ doc_version = 1
    /\ calls = [i \in CallIds |-> IdleCall]
    /\ ledger = << >>

ExtractNext == extract_commitments_from_email

ExtractSpec == ExtractInit /\ [][ExtractNext]_vars /\ WF_vars(ExtractNext)

(***************************************************************************)
(* The first connection of a user: the OAuth flow has left an ACTIVE       *)
(* connected account and the user document is the one /user created.       *)
(* Nobody disconnects and nobody posts /register-gmail-trigger, so the     *)
(* triggers that were created stay listed: of check_gmail_connection the   *)
(* branches for a missing connection or a missing trigger cannot be taken. *)
(***************************************************************************)
OnboardConn ==
    /\ account = 1
    /\ accounts_made = 1
    /\ triggers = {}
    /\ triggers_made = 0
    /\ user = NewUserDoc
    /\ lock_age = 0
    /\ tasks = EmptyBag
    /\ response = NoResponse
    /\ initial_sync_runs = 0

OnboardInit == OnboardConn /\ InitCredits /\ InitMail /\ InitRest

OnboardNext ==
    \/ CheckCompleted
    \/ CheckSyncInProgress
    \/ CheckFirstTime
    \/ CallbackFirstTime
    \/ CallbackReconnection
    \/ Tick
    \/ \E t \in BagToSet(tasks) : FT_Start(t)
    \/ \E t \in BagToSet(tasks) : FT_RunInitialSync(t)
    \/ \E t \in BagToSet(tasks) : FT_SyncRaises(t)
    \/ \E t \in BagToSet(tasks) : FT_CreateInbox(t)
    \/ \E t \in BagToSet(tasks) : FT_CreateSent(t)
    \/ \E t \in BagToSet(tasks) : FT_CreateRaises(t)
    \/ \E t \in BagToSet(tasks) : FT_MarkFirstConnection(t)
    \/ \E t \in BagToSet(tasks) : FT_Complete(t)
    \/ \E t \in BagToSet(tasks) : RC_CreateInbox(t)
    \/ \E t \in BagToSet(tasks) : RC_CreateSent(t)
    \/ \E t \in BagToSet(tasks) : RC_CreateRaises(t)
    \/ \E t \in BagToSet(tasks) : RC_MarkReconnection(t)
    \/ \E t \in BagToSet(tasks) : RC_Finally(t)

OnboardSpec == OnboardInit /\ [][OnboardNext]_vars

(***************************************************************************)
(* The same when, besides the aggregator, the document write of            *)
(* mark_first_connection may fail.                                         *)
(***************************************************************************)
WriteFailureNext ==
    \/ OnboardNext
    \/ \E t \in BagToSet(tasks) : FT_MarkFirstConnectionFails(t)

WriteFailureSpec == OnboardInit /\ [][WriteFailureNext]_vars

(***************************************************************************)
(* The first connection when no call to the aggregator and no store call   *)
(* fails: the steps in which the backfill or triggers.create raises are    *)
(* left out.  Background tasks are run by the event loop's thread pool:    *)
(* a task that can take its next step eventually takes it.                 *)
(***************************************************************************)
FirstConnectNext ==
    \/ CheckCompleted
    \/ CheckSyncInProgress
    \/ CheckFirstTime
    \/ CallbackFirstTime
    \/ CallbackReconnection
    \/ Tick
    \/ \E t \in BagToSet(tasks) : FT_Start(t)
    \/ \E t \in BagToSet(tasks) : FT_RunInitialSync(t)
    \/ \E t \in BagToSet(tasks) : FT_CreateInbox(t)
    \/ \E t \in BagToSet(tasks) : FT_CreateSent(t)
    \/ \E t \in BagToSet(tasks) : FT_MarkFirstConnection(t)
    \/ \E t \in BagToSet(tasks) : FT_Complete(t)
    \/ \E t \in BagToSet(tasks) : RC_CreateInbox(t)
    \/ \E t \in BagToSet(tasks) : RC_CreateSent(t)
    \/ \E t \in BagToSet(tasks) : RC_MarkReconnection(t)
    \/ \E t \in BagToSet(tasks) : RC_Finally(t)

FirstConnectFairness ==
    /\ WF_vars(\E t \in BagToSet(tasks) : FT_Start(t))
    /\ WF_vars(\E t \in BagToSet(tasks) : FT_RunInitialSync(t))
    /\ WF_vars(\E t \in BagToSet(tasks) : FT_CreateInbox(t))
    /\ WF_vars(\E t \in BagToSet(tasks) : FT_CreateSent(t))
    /\ WF_vars(\E t \in BagToSet(tasks) : FT_MarkFirstConnection(t))
    /\ WF_vars(\E t \in BagToSet(tasks) : FT_Complete(t))

FirstConnectSpec ==
    OnboardInit /\ [][FirstConnectNext]_vars /\ FirstConnectFairness

(***************************************************************************)
(* The connected user with data stored: the credit fields as               *)
(* initialize_credits_if_missing wrote them, and users/{uid}/commitments   *)
(* empty or holding one commitment (of message 1) that the backfill saved. *)
(***************************************************************************)
StoredCommitments ==
    { [m \in MessageIds |-> IF m = 1 THEN n ELSE 0] : n \in 0..1 }

DisconnectInit ==
    /\ ConnectedConn
    /\ credits = StoredCredits
    /\ doc_version = 1
    /\ calls = [i \in CallIds |-> IdleCall]
    /\ ledger = << >>
    /\ commitments \in StoredCommitments
    /\ runs = [r \in RunIds |-> IdleRun]
    /\ InitRest

DisconnectSpec == DisconnectInit /\ [][RecoveryNext]_vars

(***************************************************************************)
(* C1: for each connected account the aggregator holds at most one active  *)
(* inbox trigger and at most one active sent trigger.                      *)
(***************************************************************************)
C1_OneActiveTriggerPerKind ==
    \A c \in 1..accounts_made :
        /\ Cardinality(ActiveTriggers(INBOX_SLUG, c)) <= 1
        /\ Cardinality(ActiveTriggers(SENT_SLUG, c)) <= 1

(***************************************************************************)
(* C2: for credits created as (T, 0, T), after deducts that total S the    *)
(* fields are used = min(T, S), remaining = max(0, T - S) and              *)
(* used + remaining = T.                                                   *)
(***************************************************************************)
RECURSIVE SumOf(_)
SumOf(seq) == IF seq = << >> THEN 0 ELSE Head(seq) + SumOf(Tail(seq))

C2_CreditAccounting ==
    credits.has_credits_total =>
        LET T == credits.credits_total
            S == SumOf(ledger)
        IN  /\ credits.credits_used = Min(T, S)
            /\ credits.credits_remaining = Max(0, T - S)
            /\ credits.credits_used + credits.credits_remaining = T

(***************************************************************************)
(* C3: two process_new_email runs of one message_id are never both past    *)
(* the dedupe check (in the extractor or saving) at the same time.         *)
(***************************************************************************)
PassedDedupe(r) == runs[r].pc \in {"extract", "call", "save"}

C3_ConcurrentRunsDeduped ==
    \A r1, r2 \in RunIds :
        (r1 # r2 /\ runs[r1].message_id = runs[r2].message_id)
            => ~(PassedDedupe(r1) /\ PassedDedupe(r2))

(***************************************************************************)
(* C4: at most one run_initial_sync_and_trigger_first_time task of the     *)
(* user is enqueued or executing at any time.                              *)
(***************************************************************************)
C4_BackfillSingleFlight == NumTasks("first_time") <= 1

(***************************************************************************)
(* C5: run_initial_sync is started at most once for the user.              *)
(***************************************************************************)
C5_BackfillNeverRepeats == initial_sync_runs <= 1

(***************************************************************************)
(* C6: a request that enqueues create_trigger_on_reconnection does so only *)
(* when no trigger_creation_in_progress lock younger than 5 minutes is     *)
(* held.                                                                   *)
(***************************************************************************)
StartsProvisioning == NumTasks("reconnection")' > NumTasks("reconnection")

C6_LockRespectedByEveryPath == [][StartsProvisioning => ~LockRespected]_vars

(***************************************************************************)
(* C7: whatever the interleaving of the deduct_credits calls, the stored   *)
(* pair (credits_remaining, credits_used) is at every moment the result of *)
(* applying the committed deducts one after another: no update is lost and *)
(* the two fields are never seen written one without the other.            *)
(***************************************************************************)
RECURSIVE OneAfterAnother(_, _)
OneAfterAnother(pair, seq) ==
    IF seq = << >> THEN pair
    ELSE OneAfterAnother(<<new_remaining(pair[1], Head(seq)), new_used(pair[2], Head(seq))>>,
                         Tail(seq))

CreditsAtCreation ==
    IF credits.has_credits_total THEN <<credits.credits_total, 0>> ELSE <<0, 0>>

C7_DeductsSerialized ==
    <<credits.credits_remaining, credits.credits_used>>
        = OneAfterAnother(CreditsAtCreation, ledger)

\* two calls that spent something have committed, one of them after its
\* first commit was rejected because the other had written in between
C7_Witness ==
    \E i, j \in CallIds :
        /\ i # j
        /\ calls[i].pc \in {"committed", "done"} /\ calls[i].credits_spent > 0
        /\ calls[j].pc = "committed" /\ calls[j].credits_spent > 0
        /\ calls[j].attempt > 1

(***************************************************************************)
(* C8: a deduct_credits call that spends exactly the credits_remaining it  *)
(* read (> 0) leaves 0 and has invoked pause_composio_trigger exactly once *)
(* when it returns; a call that leaves credits_remaining > 0 has not       *)
(* invoked it.                                                             *)
(***************************************************************************)
C8_PauseHookExactlyOnce ==
    \A i \in CallIds :
        calls[i].pc = "done" =>
            /\ (calls[i].credits_spent = calls[i].remaining /\ calls[i].remaining > 0)
                   => (calls[i].new_remaining = 0 /\ calls[i].hook_calls = 1)
            /\ calls[i].new_remaining > 0 => calls[i].hook_calls = 0

(***************************************************************************)
(* C9: for each message_id ingested by process_new_email, at most one      *)
(* stored commitment carries it.                                           *)
(***************************************************************************)
C9_OneCommitmentPerMessage == \A m \in MessageIds : commitments[m] <= 1

(***************************************************************************)
(* C10: a /check-gmail-connection request that finds initial_sync_completed,*)
(* a trigger missing and the trigger lock 5 minutes old or older clears    *)
(* the lock, takes it again, enqueues create_trigger_on_reconnection and   *)
(* answers reconnecting; with a lock younger than 5 minutes it answers     *)
(* reconnecting and enqueues and writes nothing.  After a stale lock was   *)
(* cleared, a later request answers completed with the lock cleared,       *)
(* unless the user disconnects or the aggregator can create no trigger     *)
(* that is still missing.                                                  *)
(***************************************************************************)
TriggerMissing == ~(inbox_exists(account) /\ sent_exists(account))

StaleCase ==
    gmail_connected /\ user.initial_sync_completed /\ TriggerMissing /\ LockStale

FreshCase ==
    gmail_connected /\ user.initial_sync_completed /\ TriggerMissing /\ LockRespected

IsCheckRequest == response'.sync_status # "none"

StaleLockStep ==
    (StaleCase /\ IsCheckRequest) =>
        /\ response' = [sync_status |-> "reconnecting", stale_lock_cleared |-> TRUE]
        /\ user'.trigger_creation_in_progress
        /\ lock_age' = 0
        /\ NumTasks("reconnection")' = NumTasks("reconnection") + 1

FreshLockStep ==
    (FreshCase /\ IsCheckRequest) =>
        /\ response'.sync_status = "reconnecting"
        /\ UNCHANGED <<user, lock_age, tasks, triggers>>

Recovered ==
    response.sync_status = "completed" /\ ~user.trigger_creation_in_progress

CannotCreateMissing == gmail_connected /\ TriggerMissing /\ ~CanCreate

C11_FirstConnectedAtMonotone ==
    [][user.first_connected_at => user'.first_connected_at]_vars

\* a user with a connection history whose disconnection has been recorded
C11_Witness ==
    /\ user.first_connected_at
    /\ ~gmail_connected
    /\ ~user.composio_enabled
    /\ user.inbox_trigger_id = None /\ user.sent_trigger_id = None
    /\ user.entity_id # None

(***************************************************************************)
(* C12: reconnect skips backfill.  From a state where first_connected_at   *)
(* is non-null no request step enqueues the first-time flow, and while no  *)
(* first-time task is left in flight no backfill runs and no commitment is *)
(* written by the connection machine; the task that is enqueued is         *)
(* create_trigger_on_reconnection, and its mark_reconnection leaves        *)
(* composio_enabled true and first_connected_at as it was.  The task kind  *)
(* enqueued follows should_run_initial_sync = (first_connected_at is       *)
(* null).                                                                  *)
(***************************************************************************)
EnqueuesFirstTime == NumTasks("first_time")' > NumTasks("first_time")
EnqueuesReconnection == NumTasks("reconnection")' > NumTasks("reconnection")

C13_DisconnectFrame ==
    [][disconnect_gmail_endpoint =>
          /\ ~user'.composio_enabled
          /\ user'.inbox_trigger_id = None
          /\ user'.sent_trigger_id = None
          /\ user'.first_connected_at = user.first_connected_at
          /\ user'.last_sync_time = user.last_sync_time
          /\ user'.entity_id = user.entity_id
          /\ credits' = credits
          /\ commitments' = commitments
      ]_vars

\* disconnected, with the history, the entity, the credits and a commitment
\* still stored
C13_Witness ==
    /\ ~gmail_connected
    /\ ~user.composio_enabled
    /\ user.inbox_trigger_id = None /\ user.sent_trigger_id = None
    /\ user.first_connected_at /\ user.last_sync_time
    /\ user.entity_id = 1
    /\ credits.has_credits_total
    /\ credits.credits_remaining = DEFAULT_FREE_TRIAL_CREDITS
    /\ commitments[1] = 1
    /\ triggers = {}

(***************************************************************************)
(* C14: credits exhausted mid-backfill.  A model call of the backfill      *)
(* whose cost is at least credits_remaining leaves credits_remaining 0;    *)
(* no model call (a retry for the same message or a call for a later one)  *)
(* is issued while credits_remaining is 0; a backfill that has run the     *)
(* credits down to 0 has invoked the pause hook exactly once; commitments  *)
(* saved earlier stay stored.                                              *)
(***************************************************************************)
BackfillModelCall == sync.pc = "call" /\ sync' # sync
BackfillDeducts(credits_spent) ==
    BackfillModelCall /\ ledger' = Append(ledger, credits_spent)

BackfillExhausted ==
    /\ sync.pc = "done"
    /\ credits.has_credits_total
    /\ credits.credits_remaining = 0
    /\ Len(ledger) > 0

C14_ExhaustedMidBackfill ==
    /\ [](BackfillExhausted => sync.hook_calls = 1)
    /\ [][ /\ \A credits_spent \in Amounts :
                (BackfillDeducts(credits_spent) /\ credits_spent >= credits.credits_remaining)
                    => credits'.credits_remaining = 0
           /\ BackfillModelCall => credits.credits_remaining > 0
           /\ \A m \in MessageIds : commitments'[m] >= commitments[m]
         ]_vars

(***************************************************************************)
(* C15: POST /composio/webhook enqueues process_new_email only for a       *)
(* payload that carries user_id, a connection id and a message id, and     *)
(* only while the user has credits remaining; a payload with a field       *)
(* missing is answered error/missing_fields, and with credits_remaining 0  *)
(* every complete payload is answered skipped/no_credits; neither          *)
(* enqueues anything.                                                      *)
(***************************************************************************)
EnqueuesRun == \E r \in RunIds : runs[r].pc = "idle" /\ runs'[r].pc # "idle"
WebhookRequest == webhook' # webhook

C15_WebhookGate ==
    [][ /\ EnqueuesRun =>
              /\ ~MissingFields(webhook'.payload)
              /\ credits.credits_remaining > 0
              /\ webhook'.status = "ok"
        /\ (WebhookRequest /\ MissingFields(webhook'.payload)) =>
              /\ webhook'.status = "error" /\ webhook'.reason = "missing_fields"
              /\ runs' = runs
        /\ (WebhookRequest /\ ~MissingFields(webhook'.payload)
                           /\ credits.credits_remaining = 0) =>
              /\ webhook'.status = "skipped" /\ webhook'.reason = "no_credits"
              /\ runs' = runs
      ]_vars

\* a complete payload was answered skipped/no_credits after deducts had
\* spent the user's credits, and no run was enqueued
C15_Witness ==
    /\ webhook.status = "skipped" /\ webhook.reason = "no_credits"
    /\ ~MissingFields(webhook.payload)
    /\ credits.has_credits_total
    /\ credits.credits_remaining = 0
    /\ Len(ledger) > 0
    /\ \A r \in RunIds : runs[r].pc = "idle"

(***************************************************************************)
(* C16: every stored commitment, after any sequence of saves, marks as     *)
(* completed, reopenings, deletes and restores, has status "overdue"       *)
(* exactly when its days_overdue is positive, and that exactly when its    *)
(* overdue_flag is set.                                                    *)
(***************************************************************************)
C16_OverdueFieldsAgree ==
    \A k \in CommitmentIds :
        Exists(docs[k]) =>
            /\ (docs[k].status = "overdue") <=> (docs[k].days_overdue > 0)
            /\ (docs[k].days_overdue > 0) <=> docs[k].overdue_flag

(***************************************************************************)
(* C17: every stored commitment whose deadline_iso is null has status      *)
(* "no_deadline" and days_overdue 0, after any sequence of saves,          *)
(* reopenings, deletes and restores.                                       *)
(***************************************************************************)
C17_NullDeadlineIsNoDeadline ==
    \A k \in CommitmentIds :
        (Exists(docs[k]) /\ docs[k].deadline_iso = NullDeadline) =>
            /\ docs[k].status = "no_deadline"
            /\ docs[k].days_overdue = 0

(***************************************************************************)
(* C18: while the shadow store has not failed a commitment, a commitment   *)
(* that DELETE found is, at every point up to the end of its restore, a    *)
(* document of the store or a key of the shadow; and the restore that      *)
(* completes leaves under the same id the document DELETE found, with      *)
(* only updated_at and restored_at stamped, completed false and status     *)
(* "active", and leaves no key in the shadow.                              *)
(***************************************************************************)
RestoreCompletes ==
    /\ req.op = "restore" /\ req.pc = "remove"
    /\ req'.op = "none"
    /\ ~shadow_lost'[req.commitment_id]

C18_SoftDeleteRoundTrip ==
    /\ [](\A k \in CommitmentIds :
            (Exists(originals[k]) /\ ~shadow_lost[k]) =>
                (Exists(docs[k]) \/ shadow[k].key))
    /\ [][RestoreCompletes =>
            LET k == req.commitment_id
            IN /\ Exists(originals[k])
               /\ docs'[k] = [originals[k] EXCEPT !.updated_at = docs'[k].updated_at,
                                                  !.restored_at = docs'[k].restored_at,
                                                  !.completed = FALSE,
                                                  !.status = "active"]
               /\ docs'[k].commitment_id = k
               /\ docs'[k].restored_at # None
               /\ ~shadow'[k].key
         ]_vars

\* a commitment that was overdue and completed was deleted and restored:
\* the request is over, the document is back as the restore wrote it (not
\* completed, its completed_at still the one of the PATCH) and the key is
\* gone
C18_Witness ==
    \E k \in CommitmentIds :
        /\ req.op = "none"
        /\ ~shadow_lost[k]
        /\ Exists(docs[k])
        /\ docs[k].restored_at = RestoredAt
        /\ docs[k].updated_at = RestoredAt
        /\ docs[k].completed_at = MarkedAt
        /\ ~docs[k].completed
        /\ docs[k].status = "active"
        /\ docs[k].days_overdue > 0
        /\ ~shadow[k].key
        /\ ~Exists(originals[k])

(***************************************************************************)
(* C19: for a commitment that is not completed, recalculate_status         *)
(* returns (no_deadline, 0, false) when deadline_iso is null or does not   *)
(* parse, (overdue, today - deadline, true) when the deadline is before    *)
(* today, (due_today, 0, false) when it is today and (active, 0, false)    *)
(* when it is after today; a deadline of yesterday gives days_overdue 1.   *)
(***************************************************************************)
Returned(commitment) ==
    <<commitment.status, commitment.days_overdue, commitment.overdue_flag>>

C19_StatusByDeadline ==
    (calc.pc # "given" /\ ~calc.commitment.completed) =>
        LET deadline_iso == calc.commitment.deadline_iso
            today == calc.today
        IN /\ deadline_iso.kind \in {"null", "empty", "garbage"} =>
                  Returned(calc.once) = <<"no_deadline", 0, FALSE>>
           /\ deadline_iso.kind \in {"date", "datetime_z"} =>
                  /\ deadline_iso.day < today =>
                         Returned(calc.once) = <<"overdue", today - deadline_iso.day, TRUE>>
                  /\ deadline_iso.day = today =>
                         Returned(calc.once) = <<"due_today", 0, FALSE>>
                  /\ deadline_iso.day > today =>
                         Returned(calc.once) = <<"active", 0, FALSE>>
                  /\ deadline_iso.day + 1 = today => calc.once.days_overdue = 1

\* a commitment stored as active whose deadline "...T00:00:00Z" was two
\* days before today came back overdue by 2
C19_Witness ==
    /\ calc.pc = "once"
    /\ ~calc.commitment.completed
    /\ calc.commitment.status = "active"
    /\ calc.commitment.deadline_iso.kind = "datetime_z"
    /\ calc.commitment.deadline_iso.day + 2 = calc.today
    /\ Returned(calc.once) = <<"overdue", 2, TRUE>>

(***************************************************************************)
(* C20: recalculate_status called again with the same date on what it      *)
(* returned returns the same commitment, completed or not; and for a       *)
(* completed commitment what it returns carries the status, days_overdue   *)
(* and overdue_flag the commitment had.                                    *)
(***************************************************************************)
C20_RecalculateIdempotent ==
    /\ calc.pc = "twice" => calc.twice = calc.once
    /\ (calc.pc # "given" /\ calc.commitment.completed) =>
           Returned(calc.once) = Returned(calc.commitment)

\* both calls were made on a completed commitment stored as overdue whose
\* deadline is after today
C20_Witness ==
    /\ calc.pc = "twice"
    /\ calc.commitment.completed
    /\ calc.commitment.status = "overdue"
    /\ calc.commitment.days_overdue > 0
    /\ calc.commitment.deadline_iso.kind = "date"
    /\ calc.commitment.deadline_iso.day > calc.today
    /\ calc.twice = calc.commitment

(***************************************************************************)
(* C21: every triggers.create of the first-time flow, of                   *)
(* create_trigger_on_reconnection and of register_gmail_trigger is made    *)
(* while trigger_creation_in_progress is true, and the lock is true for    *)
(* as long as a provisioning task that set it is running.                  *)
(***************************************************************************)
CreatesTrigger == triggers_made' > triggers_made

C21_ProvisioningUnderLock ==
    /\ [](\A t \in BagToSet(tasks) :
            t.kind = "reconnection" => user.trigger_creation_in_progress)
    /\ [][CreatesTrigger => user.trigger_creation_in_progress]_vars

(***************************************************************************)
(* C22: when run_initial_sync_and_trigger_first_time returns, after its    *)
(* last write or through its except branch, sync_in_progress is false;     *)
(* when create_trigger_on_reconnection returns, after mark_reconnection or *)
(* after an exception, trigger_creation_in_progress is false and the age   *)
(* of the lock is reset with trigger_creation_started_at.                  *)
(***************************************************************************)
TaskReturns(kind) ==
    \E t \in BagToSet(tasks) : t.kind = kind /\ tasks' = Finish(t)

C22_LocksReleasedAtReturn ==
    [][ /\ TaskReturns("first_time") => ~user'.sync_in_progress
        /\ TaskReturns("reconnection") =>
               (~user'.trigger_creation_in_progress /\ lock_age' = 0)
      ]_vars

\* the only first-time task ran the backfill and returned through its
\* except branch (nothing is completed or recorded), and a reconnection
\* task is not running: both flags are false
C22_Witness ==
    /\ tasks = EmptyBag
    /\ initial_sync_runs = 1
    /\ triggers_made = 1
    /\ ~user.initial_sync_completed
    /\ ~user.first_connected_at
    /\ ~user.sync_in_progress
    /\ ~user.trigger_creation_in_progress

(***************************************************************************)
(* C23: a create_trigger_on_reconnection task whose triggers.create raised *)
(* goes from the failed call straight to its finally block: none of its    *)
(* steps other than mark_reconnection touches composio_enabled,            *)
(* inbox_trigger_id, sent_trigger_id, entity_id or first_connected_at, the *)
(* finally block releases the lock, and no step of the program writes one  *)
(* of the two trigger ids without the other.                               *)
(***************************************************************************)
ConnectionFields(doc) ==
    <<doc.composio_enabled, doc.inbox_trigger_id, doc.sent_trigger_id,
      doc.entity_id, doc.first_connected_at>>

OutsideMarkReconnection ==
    \E t \in BagToSet(tasks) :
        \/ RC_CreateInbox(t)
        \/ RC_CreateSent(t)
        \/ RC_CreateRaises(t)
        \/ RC_Finally(t)

C23_FailedReconnectionKeepsState ==
    [][ /\ OutsideMarkReconnection =>
               ConnectionFields(user') = ConnectionFields(user)
        /\ \A t \in BagToSet(tasks) :
               RC_CreateRaises(t) =>
                   \E u \in BagToSet(tasks') :
                       u.kind = "reconnection" /\ u.pc = "finally"
        /\ (\E t \in BagToSet(tasks) : RC_Finally(t)) =>
               ~user'.trigger_creation_in_progress
        /\ (user'.inbox_trigger_id # user.inbox_trigger_id)
               <=> (user'.sent_trigger_id # user.sent_trigger_id)
      ]_vars

\* the inbox trigger was created, creating the sent trigger raised, and the
\* task stands before its finally block with the document still holding
\* what the first connection recorded
C23_Witness ==
    /\ \E t \in BagToSet(tasks) :
           /\ t.kind = "reconnection" /\ t.pc = "finally"
           /\ t.inbox_trigger_id # None /\ t.sent_trigger_id = None
    /\ user.trigger_creation_in_progress
    /\ user.composio_enabled
    /\ user.first_connected_at
    /\ user.inbox_trigger_id = 1 /\ user.sent_trigger_id = 2
    /\ user.entity_id = 1

(***************************************************************************)
(* C24: when nothing fails and the background tasks are scheduled fairly,  *)
(* a never-connected user whose GET /check-gmail-connection found the      *)
(* ACTIVE connection (the answer is "started") eventually has              *)
(* sync_in_progress false, initial_sync_completed true, first_connected_at *)
(* set, composio_enabled true and both trigger ids recorded; and once the  *)
(* backfill is recorded as completed both triggers stay listed and every   *)
(* GET /check-gmail-connection answers "completed".                        *)
(***************************************************************************)
FirstConnectionDone ==
    /\ ~user.sync_in_progress
    /\ user.initial_sync_completed
    /\ user.first_connected_at
    /\ user.composio_enabled
    /\ user.inbox_trigger_id # None
    /\ user.sent_trigger_id # None

AnswersCompleted ==
    (user.initial_sync_completed /\ IsCheckRequest) =>
        response'.sync_status = "completed"

\* the branches of check_gmail_connection that FirstConnectNext leaves out
\* need a missing trigger after the completion
TriggersStayListed ==
    user.initial_sync_completed =>
        (inbox_exists(account) /\ sent_exists(account))

C24_FirstConnectionCompletes ==
    /\ (response.sync_status = "started") ~> FirstConnectionDone
    /\ [][AnswersCompleted]_vars
    /\ []TriggersStayListed

\* the first connection is done and a later check answered "completed"
C24_Witness ==
    /\ FirstConnectionDone
    /\ initial_sync_runs >= 1
    /\ inbox_exists(account) /\ sent_exists(account)
    /\ response.sync_status = "completed"

(***************************************************************************)
(* C25: inside one extract_commitments_from_email, every model call that   *)
(* returned usage is followed by one invocation of deduct_credits before   *)
(* the next model call, a debit is invoked only right after such a call,   *)
(* a committed debit charges the usage of that call, and a debit that      *)
(* raised leaves the extraction at the validation of the answer.           *)
(***************************************************************************)
IsDebit(e) == e \in {"debit", "debit_failed"}

MeteredBeforeNextCall ==
    \A i \in 1..Len(extraction.events) :
        /\ (extraction.events[i] = "call_with_usage" /\ i < Len(extraction.events))
               => IsDebit(extraction.events[i + 1])
        /\ IsDebit(extraction.events[i])
               => (i > 1 /\ extraction.events[i - 1] = "call_with_usage")

Invoked(e) ==
    /\ Len(extraction'.events) = Len(extraction.events) + 1
    /\ extraction'.events[Len(extraction'.events)] = e

C25_MeteredAfterEachCall ==
    /\ []MeteredBeforeNextCall
    /\ [][ /\ Invoked("call") \/ Invoked("call_with_usage") =>
                  (extraction.events = << >>
                   \/ extraction.events[Len(extraction.events)] # "call_with_usage")
           /\ Invoked("debit") =>
                  credits'.credits_used = credits.credits_used + extraction.usage
           /\ Invoked("debit_failed") =>
                  (extraction'.pc = "validate" /\ credits' = credits)
         ]_vars

\* a debit failed, the answer was invalid, and the extraction went on: the
\* second call was metered too and a third call was issued
C25_Witness ==
    /\ Len(extraction.events) = 5
    /\ extraction.events[1] = "call_with_usage"
    /\ extraction.events[2] = "debit_failed"
    /\ extraction.events[3] = "call_with_usage"
    /\ extraction.events[4] = "debit"
    /\ extraction.events[5] = "call"
    /\ credits.credits_used > 0

(***************************************************************************)
(* C26: extract_commitments_from_email issues at most RETRY_ATTEMPTS + 1   *)
(* = 3 model calls and none when the gate found no credits; an answer that *)
(* parses and passes _validate_schema is what the function returns, the    *)
(* fallback result (has_commitment false, no commitments) is returned only *)
(* after the last attempt, and every extraction ends by returning.         *)
(***************************************************************************)
ModelCalls ==
    Cardinality({i \in 1..Len(extraction.events) :
                    extraction.events[i] \in {"call", "call_with_usage"}})

ReturnsValidAnswer ==
    (extraction.pc = "validate" /\ _validate_schema(extraction.answer)) =>
        /\ extraction'.pc = "returned"
        /\ extraction'.result = ParsedResult(extraction.answer)

C26_ReturnsFirstValidAnswer ==
    /\ [](ModelCalls <= RETRY_ATTEMPTS + 1)
    /\ [](extraction.result.kind = "no_credits" => ModelCalls = 0)
    /\ [](extraction.result.kind = "fallback" =>
              (ModelCalls = RETRY_ATTEMPTS + 1 /\ ~extraction.result.has_commitment
               /\ extraction.result.n = 0))
    /\ [][ReturnsValidAnswer]_vars
    /\ <>(extraction.pc = "returned")

(***************************************************************************)
(* C27: a call of initialize_credits_if_missing that reads a document with *)
(* credits_total writes nothing, and once a debit has been committed on   *)
(* an initialized document no step of an initialize call or of a deduct    *)
(* call takes credits_used back down or credits_remaining back up.         *)
(***************************************************************************)
InitializedIsUntouched ==
    \A j \in InitIds :
        (init_calls[j] = "idle" /\ init_calls'[j] # "idle" /\ credits.has_credits_total)
            => (init_calls'[j] = "done" /\ credits' = credits)

NoDebitLost ==
    (credits.has_credits_total /\ ledger # << >>) =>
        /\ credits'.credits_used >= credits.credits_used
        /\ credits'.credits_remaining <= credits.credits_remaining

C27_InitializeKeepsDebits ==
    [][InitializedIsUntouched /\ NoDebitLost]_vars

(***************************************************************************)
(* C28: every document either pipeline stores has direction "outgoing"     *)
(* exactly when its source_email_folder is SENT and "incoming" exactly     *)
(* when it is INBOX, whatever schema-valid answer the extractor returned,  *)
(* an answer without direction included.                                   *)
(***************************************************************************)
C28_DirectionFollowsFolder ==
    persisted.doc.saved =>
        /\ (persisted.doc.direction = "outgoing"
                <=> persisted.doc.source_email_folder = "SENT")
        /\ (persisted.doc.direction = "incoming"
                <=> persisted.doc.source_email_folder = "INBOX")

(***************************************************************************)
(* C29: every document either pipeline stores has estimated_hours > 0.     *)
(***************************************************************************)
C29_EstimatedHoursPositive ==
    persisted.doc.saved =>
        /\ persisted.doc.estimated_hours.kind = "number"
        /\ persisted.doc.estimated_hours.value > 0

(***************************************************************************)
(* C30: in the backfill an extractor error or a save error on one message  *)
(* leaves the batch running and the stored documents stored; a fetch that  *)
(* raised for INBOX ends only the fetching of INBOX: what was fetched is   *)
(* processed and SENT is still fetched and processed; a fetch that raised  *)
(* for SENT keeps what INBOX stored; and the run ends with every fetched   *)
(* message of both folders gone through.                                   *)
(***************************************************************************)
MessageError == PB_ExtractorRaises \/ PB_SaveFails

BatchGoesOn ==
    /\ MessageError =>
           (batch'.pc = "process" /\ batch'.folder = batch.folder
            /\ batch'.stored = batch.stored)
    /\ RIS_FetchRaises =>
           (batch'.pc = "process" /\ batch'.folder = batch.folder
            /\ batch'.stored = batch.stored /\ batch'.fetched = batch.fetched)
    /\ \A f \in Folders : batch'.stored[f] >= batch.stored[f]

BothFoldersProcessed ==
    batch.pc = "done" =>
        \A f \in Folders :
            /\ batch.attempted[f]
            /\ Len(batch.outcomes[f]) = batch.fetched[f]

FirstFailureRetried ==
    (RIS_FetchRaises /\ ~batch.fetch_failed[batch.folder])
        => /\ batch'.pc = "fetch"
           /\ batch'.folder = batch.folder
           /\ batch'.page_token = batch.page_token

C31_FetchRetriedOnce == [][FirstFailureRetried]_vars

\* C40: the paged fetch loop of each folder terminates for every sequence
\* of answers of the aggregator, also when it keeps returning empty pages
\* with a nextPageToken, and never collects more than the cap.
FetchLoopEnds(f) ==
    (batch.pc = "fetch" /\ batch.folder = f)
        ~> ~(batch.pc = "fetch" /\ batch.folder = f)

C40_FetchLoopTerminates ==
    /\ [](\A f \in Folders : batch.fetched[f] <= MaxMessages)
    /\ \A f \in Folders : FetchLoopEnds(f)

\* C32: when the shadow store is unavailable, DELETE still deletes the
\* commitment and answers with success, and a POST /restore of that
\* commitment that follows answers 404 (NotFound) and leaves the commitment
\* documents as they are.
DeletesWithoutBackup ==
    (DEL_Delete /\ shadow_lost[req.commitment_id])
        => /\ \A k \in CommitmentIds :
                  docs'[k].commitment_id # req.commitment_id
           /\ reply' = Replied(200)

UnavailableRestore(commitment_id) ==
    /\ shadow_lost[commitment_id]
    /\ ~shadow[commitment_id].key
    /\ \/ RES_NoClient(commitment_id)
       \/ RES_GetRaises(commitment_id)
       \/ RES_NotFound(commitment_id)

RestoreIsNotFound ==
    \A commitment_id \in CommitmentIds :
        UnavailableRestore(commitment_id)
            => reply' = Replied(404) /\ docs' = docs

C32_ShadowStoreUnavailable ==
    [][DeletesWithoutBackup /\ RestoreIsNotFound]_vars

\* C33: get_urgency_score orders the five buckets strictly: of two
\* non-completed commitments with recalculated status, the one in the
\* earlier bucket of overdue, due_today, upcoming (active, at most 7 days
\* ahead), later (active, more than 7 days ahead), no_deadline has the
\* smaller score, whatever days_overdue and the days until the deadline.
Bucket(commitment, today) ==
    IF commitment.status = "overdue" THEN 1
    ELSE IF commitment.status = "due_today" THEN 2
    ELSE IF commitment.status = "active"
    THEN IF fromisoformat(ReplaceZ(commitment.deadline_iso)) - today <= 7
         THEN 3 ELSE 4
    ELSE 5

C33_BucketsStrictlyOrdered ==
    urgency.pc = "scored"
        => \A b \in ScoreInputs :
              Bucket(urgency.commitment, urgency.today) < Bucket(b, urgency.today)
                  => urgency.score < get_urgency_score(b, urgency.today)

\* C34: a phrase that names weekday w, with "this" or no qualifier and an
\* optional by/due/on/before, resolves to the email date plus (w - r) mod 7
\* where r is the weekday of the email: the first date on that weekday not
\* before the email date.  With "next" it is the same date, or seven days
\* later when that is the email date itself: a date after the email date
\* and at most 7 days later.
NamedWeekday(txt) == WEEKDAY_MAP(txt[Len(txt)])
IsNext(txt) == "next" \in Words(txt)

Normalized(txt, email_date) ==
    LET ahead == (NamedWeekday(txt) - weekday(email_date)) % 7
    IN  IF IsNext(txt) /\ ahead = 0 THEN email_date + 7 ELSE email_date + ahead

C34_WeekdayNormalization ==
    (parsing.pc = "parsed" /\ parsing.deadline_raw \in WeekdayPhrases)
        => LET txt == parsing.deadline_raw
               day == parsing.result.day
           IN  /\ parsing.result = IsoDate(Normalized(txt, parsing.email_date))
               /\ weekday(day) = NamedWeekday(txt)
               /\ day - parsing.email_date \in
                      (IF IsNext(txt) THEN 1..7 ELSE 0..6)

\* "friday" in an email of a Friday is that Friday, "next friday" the
\* Friday after it
C34_Witness ==
    /\ parsing.pc = "parsed"
    /\ parsing.deadline_raw \in WeekdayPhrases
    /\ weekday(parsing.email_date) = NamedWeekday(parsing.deadline_raw)
    /\ IsNext(parsing.deadline_raw)
    /\ parsing.result = IsoDate(parsing.email_date + 7)

\* C35: once POST /disconnect-gmail has completed, composio_enabled stays
\* false, both trigger ids stay null and trigger_creation_in_progress stays
\* false until the next connect, callback or check request, also when a
\* first-time or reconnection task that was enqueued before the disconnect
\* runs its remaining steps afterwards.  (No account is connected from the
\* disconnect until the next OAuth connect, and tasks are enqueued only
\* while an account is connected.)
Disconnected ==
    /\ account = None
    /\ ~user.composio_enabled
    /\ user.inbox_trigger_id = None
    /\ user.sent_trigger_id = None
    /\ ~user.trigger_creation_in_progress

TaskStep ==
    \E t \in BagToSet(tasks) :
        \/ run_initial_sync_and_trigger_first_time(t)
        \/ create_trigger_on_reconnection(t)

C35_DisconnectIsFinal == [][(Disconnected /\ TaskStep) => Disconnected']_vars

\* C36: initial_sync_completed = true implies that first_connected_at is
\* set, also when the write of mark_first_connection fails.
C36_CompletedImpliesFirstConnected ==
    user.initial_sync_completed => user.first_connected_at

\* C37: first_connected_at is written at most once for a user:
\* mark_first_connection never runs on a document whose first_connected_at
\* is already set, whatever the interleaving of check and callback
\* requests.
MarksFirstConnection == \E t \in BagToSet(tasks) : FT_MarkFirstConnection(t)

C37_FirstConnectionMarkedOnce ==
    [][MarksFirstConnection => ~user.first_connected_at]_vars

\* C38: when the same webhook is delivered again after the run of the
\* earlier delivery has ended, the live pipeline does not call the model
\* (and debit) for a message_id that an earlier run already had answered,
\* also when that run found no commitment or ended with the safe empty
\* result.
ExtractedBefore(r) ==
    \E q \in RunIds :
        /\ q # r
        /\ runs[q].message_id = runs[r].message_id
        /\ runs[q].extracted

C38_ExtractedAtMostOnce ==
    [][\A r \in RunIds : PNE_CallAnswers(r) => ~ExtractedBefore(r)]_vars

\* C39: in every state that mark_first_connection, mark_reconnection and
\* mark_disconnection lead to, composio_enabled is true exactly when
\* trigger ids are recorded, and the two ids are written together: both
\* are the ids the provisioning task that records them got from its two
\* triggers.create calls, or both are null.
EnabledIffTriggersRecorded ==
    /\ user.composio_enabled <=> user.inbox_trigger_id # None
    /\ user.inbox_trigger_id # None <=> user.sent_trigger_id # None

MarkWritesBothIds ==
    \A t \in BagToSet(tasks) :
        (FT_MarkFirstConnection(t) \/ RC_MarkReconnection(t))
            => /\ user'.inbox_trigger_id = t.inbox_trigger_id
               /\ user'.sent_trigger_id = t.sent_trigger_id
               /\ t.inbox_trigger_id # None /\ t.sent_trigger_id # None

C39_TriggerIdsWrittenTogether ==
    []EnabledIffTriggersRecorded /\ [][MarkWritesBothIds]_vars

\* the user connected, disconnected and connected again: the document
\* carries the ids of the second provisioning
C39_Witness ==
    /\ user.composio_enabled
    /\ user.first_connected_at
    /\ account = 2
    /\ user.entity_id = 2
    /\ user.inbox_trigger_id # None /\ user.sent_trigger_id # None

=============================================================================
